---- MODULE Spec2Model ----
(***************************************************************************)
(* CellMindAI: prompt chains read from a spreadsheet and run against a     *)
(* completion API.  The model covers the client script                     *)
(* (CellMindAI-Client.js) and the library (CellMindAILib.js):              *)
(*   - column discovery and chain building from the rows of a sheet,       *)
(*   - resolution of a row's data reference,                               *)
(*   - sequential execution of the chain (library path and fallback path), *)
(*   - what the caller writes and shows afterwards.                        *)
(*                                                                         *)
(* A text is a sequence of symbols.  A symbol is a one-character string,   *)
(* or a longer string standing for a piece of text that the program never  *)
(* looks into (a prompt word, an address such as "A1:B2", a literal of the *)
(* program).  A JavaScript value is a record [t, s]: its type tag and its  *)
(* text (what String(v) gives).                                            *)
(***************************************************************************)
EXTENDS Integers, Sequences, FiniteSets, TLC

VARIABLES
  entry,             \* which script's menu started the invocation: "client" | "lib"
  single,            \* processWithCellMind: the prompt, range and headers choice entered
  cancelRequested,   \* the user asked to stop the chain run (no statement of the scripts reads it)
  apiKey,            \* this.apiKey of the library's CellMindAI instance (null at first)
  lastSaved,         \* the key saved most recently and not cleared since (Null when none)
  libraryAvailable,  \* client global set by initLibrary
  storedKey,         \* user property CELLMINDAI_API_KEY (Null when absent)
  headers,           \* data[0], the raw header row of the active sheet
  nRows,             \* data.length - 1, the number of rows below the header
  promptCol, rangeCol, includeCol,   \* discovered column indexes (0-based, -1)
  pc,                \* position of the invocation
  rowIdx,            \* loop variable i of the chain-building loop (1-based row)
  row,               \* the building loop's locals for the row just processed
  promptCells,       \* prompt cells of the rows the building loop has read, in row order
  promptChain,       \* the chain built so far / being executed
  hasValidPrompts,   \* client flag of the building loop
  lastAlert,         \* the last dialog shown to the user, with the answer
  stepIdx,           \* loop variable i of the executor (0-based step)
  previousResult,    \* previousResult / previousResponse of the executor
  results,           \* the executor's local results array
  requests,          \* every request handed to UrlFetchApp.fetch, in order
  inFlight,          \* requests sent and not yet answered
  responses,         \* every response UrlFetchApp.fetch returned, in order
  thrown,            \* the error that left the executor, if any
  callerResults,     \* the caller's variable `results` (assigned on return)
  resultSheet        \* step entries written to the result sheet

vars == <<entry, single, cancelRequested, apiKey, lastSaved, libraryAvailable, storedKey, headers, nRows,
          promptCol, rangeCol, includeCol, pc, rowIdx, row, promptCells, promptChain,
          hasValidPrompts, lastAlert, stepIdx, previousResult, results,
          requests, inFlight, responses, thrown, callerResults, resultSheet>>

buildVars == <<headers, nRows, promptCol, rangeCol, includeCol, rowIdx, row,
               promptCells, hasValidPrompts>>
keyVars == <<apiKey, lastSaved>>
execVars == <<stepIdx, previousResult, results, requests, inFlight, responses, thrown>>

----------------------------------------------------------------------------
(* Bounds of the model. *)

MaxRows == 2        \* data rows of the sheet in the chain-building runs
MaxChainLen == 3    \* steps of a chain handed directly to the executor
MaxCols == 2        \* header cells in the column-discovery runs
MaxOptionSteps == 1 \* steps of a chain whose steps supply generation options
MaxSessionChainLen == 2   \* steps of a chain that is run again in the same session

----------------------------------------------------------------------------
(* JavaScript values and string methods. *)

Str(s) == [t |-> "str", s |-> s]
Num(s) == [t |-> "num", s |-> s]
Bool(s) == [t |-> "bool", s |-> s]
Null == [t |-> "null", s |-> <<"null">>]
Undefined == [t |-> "undefined", s |-> <<"undefined">>]

TRUE_TEXT == <<"t", "r", "u", "e">>
FALSE_TEXT == <<"f", "a", "l", "s", "e">>

\* ToBoolean: what `!v`, `v && ...` and `v || ...` test.
Truthy(v) ==
  CASE v.t = "str" -> v.s # <<>>
    [] v.t = "num" -> v.s # <<"0">>
    [] v.t = "bool" -> v.s = TRUE_TEXT
    [] OTHER -> FALSE

\* String(v) and v.toString() on a string, number or boolean.
String(v) == v.s

UpperAlpha == <<"A", "B", "C", "D", "E", "F", "G", "H", "I", "J", "K", "L", "M",
                "N", "O", "P", "Q", "R", "S", "T", "U", "V", "W", "X", "Y", "Z">>
LowerAlpha == <<"a", "b", "c", "d", "e", "f", "g", "h", "i", "j", "k", "l", "m",
                "n", "o", "p", "q", "r", "s", "t", "u", "v", "w", "x", "y", "z">>

LowerChar(c) ==
  IF \E k \in DOMAIN UpperAlpha : UpperAlpha[k] = c
  THEN LowerAlpha[CHOOSE k \in DOMAIN UpperAlpha : UpperAlpha[k] = c]
  ELSE c

RECURSIVE toLowerCase(_)
toLowerCase(s) ==
  IF s = <<>> THEN <<>> ELSE <<LowerChar(Head(s))>> \o toLowerCase(Tail(s))

IsSpace(c) == c \in {" ", "\t", "\n"}

RECURSIVE trimStart(_)
trimStart(s) ==
  IF s = <<>> THEN s
  ELSE IF IsSpace(Head(s)) THEN trimStart(Tail(s)) ELSE s

RECURSIVE trimEnd(_)
trimEnd(s) ==
  IF s = <<>> THEN s
  ELSE IF IsSpace(s[Len(s)]) THEN trimEnd(SubSeq(s, 1, Len(s) - 1)) ELSE s

trim(s) == trimEnd(trimStart(s))

\* s.includes(k): k occurs in s as a contiguous run.
includes(s, k) ==
  \E p \in 1..(Len(s) - Len(k) + 1) : SubSeq(s, p, p + Len(k) - 1) = k

\* row.join(sep) of an array of cell values: each is converted with String.
RECURSIVE join(_, _)
join(cells, sep) ==
  IF cells = <<>> THEN <<>>
  ELSE IF Len(cells) = 1 THEN String(cells[1])
  ELSE String(cells[1]) \o sep \o join(Tail(cells), sep)

----------------------------------------------------------------------------
(* The completion API: what the program sends and what may come back. *)

CLAUDE_MODEL == Str(<<"claude-3-5-sonnet-20240620">>)
DEFAULT_MAX_TOKENS == Num(<<"4000">>)
DEFAULT_TEMPERATURE == Num(<<"0.7">>)

PREVIOUS_HEADER_DIRECT == <<"\n\nResult from previous step:\n">>
PREVIOUS_HEADER_LIB == <<"\n\nResult of the previous step:\n">>
DATA_HEADER == <<"\n\nHere is the data from the table:\n\n">>
NO_DATA == <<"No data available">>

ApiKey == Str(<<"sk-key">>)

\* step.options = {}: no generation parameter supplied.
NoOptions == [model |-> Undefined, max_tokens |-> Undefined, temperature |-> Undefined]

\* a || b
Or(a, b) == IF Truthy(a) THEN a ELSE b

PromptWord(k) == "p" \o ToString(k)
ResponseWord(k) == "r" \o ToString(k)

\* What UrlFetchApp.fetch may return for the request of step k (0-based):
\* a status code, the raw body, and what JSON.parse makes of the body.
\*   text         {content: [{text: ...}]}
\*   notext       {content: [{}]}
\*   emptycontent {content: []}
\*   nocontent    {}
\*   badjson      a body that is not JSON
HttpResponses(k) ==
  { [code |-> "200", kind |-> "text", text |-> t, raw |-> <<"{content:[{text:">> \o t \o <<"}]}">>]
      : t \in {<<>>, <<ResponseWord(k)>>} }
  \cup { [code |-> "200", kind |-> kd, text |-> <<>>, raw |-> <<kd>>]
      : kd \in {"notext", "emptycontent", "nocontent", "badjson"} }
  \cup { [code |-> "500", kind |-> "nocontent", text |-> <<>>, raw |-> <<"{error:overloaded}">>],
         [code |-> "201", kind |-> "text", text |-> <<ResponseWord(k)>>,
          raw |-> <<"{content:[{text:", ResponseWord(k), "}]}">>] }

NoError == [kind |-> "none", message |-> <<>>, atStep |-> -1]
Error(kind, message, k) == [kind |-> kind, message |-> message, atStep |-> k]

Returned(v) == [ok |-> TRUE, value |-> v, error |-> NoError]
Throws(e) == [ok |-> FALSE, value |-> Undefined, error |-> e]

\* jsonResponse.content[0].text of a parsed body.
FirstBlockText(resp, k) ==
  CASE resp.kind = "text" -> Returned(Str(resp.text))
    [] resp.kind = "notext" -> Returned(Undefined)
    [] resp.kind = "emptycontent" ->
         Throws(Error("TypeError", <<"Cannot read properties of undefined (reading 'text')">>, k))
    [] OTHER ->
         Throws(Error("TypeError", <<"Cannot read properties of undefined (reading '0')">>, k))

\* A variant of the error text without the response body.
ApiErrorMessageNoBody(resp) == <<"API error (", resp.code, ")">>

ApiErrorMessage(resp) == <<"API error (", resp.code, "): ">> \o resp.raw

\* callClaudeAPI after fetch returned resp: the value returned or the error thrown.
callClaudeAPI(resp, k) ==
  IF resp.code # "200" THEN Throws(Error("ApiError", ApiErrorMessage(resp), k))
  ELSE IF resp.kind = "badjson" THEN Throws(Error("SyntaxError", <<"Unexpected token">>, k))
  ELSE FirstBlockText(resp, k)

\* _sendRequest after fetch returned resp: every error is re-thrown wrapped.
sendRequest(resp, k) ==
  IF resp.code # "200"
  THEN Throws(Error("Error", <<"Error during API request: ">> \o ApiErrorMessage(resp), k))
  ELSE IF resp.kind = "badjson"
  THEN Throws(Error("Error", <<"Error during API request: ", "Unexpected token">>, k))
  ELSE Returned(Undefined)

\* sendPrompt after fetch returned resp: {response: response.content[0].text, ...}.
sendPrompt(resp, k) ==
  IF sendRequest(resp, k).ok THEN FirstBlockText(resp, k) ELSE sendRequest(resp, k)

\* _formatDataAsTable(data)
formatDataAsTable(data) ==
  IF data = <<>> THEN NO_DATA
  ELSE LET RECURSIVE rows(_)
           rows(d) == IF d = <<>> THEN <<>>
                      ELSE join(Head(d), <<"\t">>) \o <<"\n">> \o rows(Tail(d))
       IN rows(data)

\* The table text of executeChainDirectly: '' for no rows.
dataTableDirect(data) ==
  LET RECURSIVE rows(_)
      rows(d) == IF d = <<>> THEN <<>>
                 ELSE join(Head(d), <<"\t">>) \o <<"\n">> \o rows(Tail(d))
  IN rows(data)

\* if (previousResult && promptChain[i].includeLastResult): the executor's test.
IncludesPrevious(prev, step) == Truthy(prev) /\ step.includeLastResult

\* fullPrompt of executeChainDirectly for a step.
fullPromptDirect(step, prev) ==
  String(step.prompt)
    \o (IF IncludesPrevious(prev, step) THEN PREVIOUS_HEADER_DIRECT \o String(prev) ELSE <<>>)
    \o (IF dataTableDirect(step.data) # <<>>
        THEN DATA_HEADER \o dataTableDirect(step.data) ELSE <<>>)

\* enhancedPrompt of CellMindAI.executePromptChain, then fullPrompt of sendPrompt.
fullPromptLib(step, prev) ==
  String(step.prompt)
    \o (IF IncludesPrevious(prev, step) THEN PREVIOUS_HEADER_LIB \o String(prev) ELSE <<>>)
    \o DATA_HEADER \o formatDataAsTable(step.data)

\* CellMindAI.getApiKey(): the key the instance holds, else the stored one
\* (which the instance then keeps), else null.
libGetApiKey ==
  IF Truthy(apiKey) THEN apiKey ELSE IF Truthy(storedKey) THEN storedKey ELSE Null

\* The payload of the request for a step.
requestDirect(step, prev, k) ==
  [step |-> k, content |-> fullPromptDirect(step, prev), model |-> CLAUDE_MODEL,
   max_tokens |-> DEFAULT_MAX_TOKENS, temperature |-> DEFAULT_TEMPERATURE,
   apiKey |-> storedKey]

requestLib(step, prev, k) ==
  [step |-> k, content |-> fullPromptLib(step, prev),
   model |-> Or(step.options.model, CLAUDE_MODEL),
   max_tokens |-> Or(step.options.max_tokens, DEFAULT_MAX_TOKENS),
   temperature |-> Or(step.options.temperature, DEFAULT_TEMPERATURE),
   apiKey |-> libGetApiKey]

----------------------------------------------------------------------------
(* The executors: executeChainDirectly (client, fallback path) and          *)
(* CellMindAI.executePromptChain (library path).                            *)

NoAlert == [title |-> "", text |-> <<>>, answer |-> ""]
Alert(title, text, answer) == [title |-> title, text |-> text, answer |-> answer]

\* The locals of processWithCellMind before the dialogs are answered.
NoSingle == [prompt |-> <<>>, rangeStr |-> <<>>, includeHeaders |-> FALSE]

NotAssigned == [assigned |-> FALSE, items |-> <<>>]
Assigned(items) == [assigned |-> TRUE, items |-> items]

\* if (libraryAvailable && typeof CellMindLib.executePromptChain === 'function');
\* the library's own dialog always runs the library's executor.
UsesLibrary == entry = "lib" \/ libraryAvailable

\* The client's getApiKey(): both branches end at the stored property (the
\* library exports no getApiKey, so the call throws and the catch reads the store).
getApiKey == storedKey

\* A variant that finds a key whatever the instance and the store hold.
hasApiKeyAlways == TRUE

\* CellMindAI.hasApiKey(): getApiKey() !== null.
hasApiKey == libGetApiKey # Null

\* An element of the executor's results: the text returned by callClaudeAPI
\* (object = FALSE) or the object {response, rawResponse} of sendPrompt.
ResultDirect(v) == [object |-> FALSE, response |-> v]
ResultLib(v) == [object |-> TRUE, response |-> v]

\* A variant that skips the failed step and goes on with the next one.
AbortRunSkipStep(err) ==
  /\ thrown' = err
  /\ pc' = "loop"
  /\ stepIdx' = stepIdx + 1
  /\ UNCHANGED <<previousResult, results>>

\* An exception leaves the loop: neither executor catches inside the loop.
AbortRun(err) ==
  /\ thrown' = err
  /\ pc' = "thrown"
  /\ UNCHANGED <<stepIdx, previousResult, results>>

\* result = callClaudeAPI(...) / this.sendPrompt(...) returned v:
\* push it, keep it as the previous result and go on with the next step.
RecordResult(v) ==
  /\ results' = Append(results, IF UsesLibrary THEN ResultLib(v) ELSE ResultDirect(v))
  /\ previousResult' = v
  /\ stepIdx' = stepIdx + 1
  /\ pc' = "loop"
  /\ UNCHANGED thrown

\* A variant that does not wait for the response before the next step.
AwaitResponseNot ==
  /\ pc' = "loop"
  /\ stepIdx' = stepIdx + 1
  /\ UNCHANGED <<previousResult, results, thrown>>

\* UrlFetchApp.fetch blocks the script until the response is there.
AwaitResponse ==
  /\ pc' = "awaiting"
  /\ UNCHANGED <<stepIdx, previousResult, results, thrown>>

\* A variant of the executor's entry that keeps the previous result it finds.
StartExecutionKeepsPrevious ==
  /\ pc = "execute"
  /\ IF UsesLibrary /\ promptChain = <<>>
     THEN /\ thrown' = Error("Error", <<"Prompt chain must be a non-empty array">>, 0)
          /\ pc' = "thrown"
     ELSE /\ pc' = "loop"
          /\ UNCHANGED thrown
  /\ stepIdx' = 0
  /\ results' = <<>>
  /\ UNCHANGED <<entry, cancelRequested, keyVars, single, libraryAvailable, storedKey, buildVars, promptChain,
                 lastAlert, previousResult, requests, inFlight, responses, callerResults,
                 resultSheet>>

\* The call of the executor by its caller: both executors start with an empty
\* results array and no previous result; the library rejects an empty chain.
StartExecution ==
  /\ pc = "execute"
  /\ IF UsesLibrary /\ promptChain = <<>>
     THEN /\ thrown' = Error("Error", <<"Prompt chain must be a non-empty array">>, 0)
          /\ pc' = "thrown"
     ELSE /\ pc' = "loop"
          /\ UNCHANGED thrown
  /\ stepIdx' = 0
  /\ previousResult' = Null
  /\ results' = <<>>
  /\ UNCHANGED <<entry, cancelRequested, keyVars, single, libraryAvailable, storedKey, buildVars, promptChain, lastAlert,
                 requests, inFlight, responses, callerResults, resultSheet>>

\* One iteration of the loop up to the call of UrlFetchApp.fetch.
IssueRequest ==
  /\ pc = "loop"
  /\ stepIdx < Len(promptChain)
  /\ LET step == promptChain[stepIdx + 1] IN
       IF UsesLibrary
       THEN /\ apiKey' = libGetApiKey
            /\ IF ~hasApiKey
               THEN /\ AbortRun(Error("Error", <<"No API key found. Please set an API key first with setApiKey()">>, stepIdx))
                    /\ UNCHANGED <<requests, inFlight>>
               ELSE /\ requests' = Append(requests, requestLib(step, previousResult, stepIdx))
                    /\ inFlight' = inFlight + 1
                    /\ AwaitResponse
       ELSE /\ UNCHANGED apiKey
            /\ IF ~Truthy(getApiKey)
               THEN /\ AbortRun(Error("Error", <<"API key not configured">>, stepIdx))
                    /\ UNCHANGED <<requests, inFlight>>
               ELSE /\ requests' = Append(requests, requestDirect(step, previousResult, stepIdx))
                    /\ inFlight' = inFlight + 1
                    /\ AwaitResponse
  /\ UNCHANGED <<entry, cancelRequested, lastSaved, single, libraryAvailable, storedKey, buildVars, promptChain, lastAlert,
                 responses, callerResults, resultSheet>>

\* fetch returns a response: the rest of callClaudeAPI / sendPrompt and of the iteration.
ReceiveResponse ==
  /\ pc = "awaiting"
  /\ \E resp \in HttpResponses(stepIdx) :
       LET out == IF UsesLibrary THEN sendPrompt(resp, stepIdx)
                  ELSE callClaudeAPI(resp, stepIdx)
       IN /\ IF out.ok THEN RecordResult(out.value) ELSE AbortRun(out.error)
          /\ responses' = Append(responses, resp)
  /\ inFlight' = inFlight - 1
  /\ UNCHANGED <<entry, cancelRequested, keyVars, single, libraryAvailable, storedKey, buildVars, promptChain, lastAlert,
                 requests, callerResults, resultSheet>>

\* fetch itself throws (no connection, timeout).
FetchThrows ==
  /\ pc = "awaiting"
  /\ AbortRun(IF UsesLibrary
              THEN Error("Error", <<"Error during API request: ", "Address unavailable">>, stepIdx)
              ELSE Error("Exception", <<"Address unavailable">>, stepIdx))
  /\ inFlight' = inFlight - 1
  /\ UNCHANGED <<entry, cancelRequested, keyVars, single, libraryAvailable, storedKey, buildVars, promptChain, lastAlert,
                 requests, responses, callerResults, resultSheet>>

\* The loop condition fails: return results.
ReturnResults ==
  /\ pc = "loop"
  /\ stepIdx >= Len(promptChain)
  /\ pc' = "returned"
  /\ callerResults' = Assigned(results)
  /\ UNCHANGED <<entry, cancelRequested, keyVars, single, libraryAvailable, storedKey, buildVars, promptChain, lastAlert,
                 execVars, resultSheet>>

----------------------------------------------------------------------------
(* The callers of the executor: the tail of executePromptChainFromCurrentSheet *)
(* (client) and of showChainDialog (library).                                  *)

ObjectValue == [t |-> "object", s |-> <<"[object Object]">>]
Unset == [t |-> "unset", s |-> <<>>]

NoSheet == [created |-> FALSE, entries |-> <<>>]

StepLabel(k) == <<"Step ", ToString(k), ":">>

\* results[i].response || results[i] of the client's write loop.
clientCellValue(res) ==
  IF res.object THEN Returned(Or(res.response, ObjectValue))
  ELSE IF res.response.t = "undefined"
  THEN Throws(Error("TypeError", <<"Cannot read properties of undefined (reading 'response')">>, -1))
  ELSE Returned(res.response)

\* The entries the client's write loop leaves on the result sheet: it stops at
\* the first result whose value cannot be read, after the heading of that step.
RECURSIVE clientEntries(_, _, _)
clientEntries(chain, res, k) ==
  IF k > Len(res) THEN <<>>
  ELSE IF clientCellValue(res[k]).ok
  THEN <<[label |-> StepLabel(k), promptEcho |-> chain[k].prompt,
          response |-> clientCellValue(res[k]).value]>> \o clientEntries(chain, res, k + 1)
  ELSE <<[label |-> StepLabel(k), promptEcho |-> chain[k].prompt, response |-> Unset]>>

\* The entries of the library's write loop: label and results[i].response.
libEntries(res) ==
  [k \in 1..Len(res) |->
     [label |-> StepLabel(k), promptEcho |-> Unset, response |-> res[k].response]]

WriteFails(res) == \E k \in 1..Len(res) : ~clientCellValue(res[k]).ok
WriteError(res) ==
  clientCellValue(res[CHOOSE k \in 1..Len(res) : ~clientCellValue(res[k]).ok]).error

\* The executor returned: insert the result sheet, write one entry per result.
WriteResults ==
  /\ pc = "returned"
  /\ pc' = "done"
  /\ IF entry = "lib"
     THEN /\ resultSheet' = [created |-> TRUE, entries |-> libEntries(callerResults.items)]
          /\ lastAlert' = Alert("Success", <<"The prompt chain was successfully executed.">>, "OK")
     ELSE /\ resultSheet' = [created |-> TRUE,
                             entries |-> clientEntries(promptChain, callerResults.items, 1)]
          /\ lastAlert' =
               IF WriteFails(callerResults.items)
               THEN Alert("Execution Error",
                          <<"An error occurred while executing the prompt chain:\n\n">>
                            \o WriteError(callerResults.items).message, "OK")
               ELSE Alert("Execution Complete",
                          <<"The prompt chain was successfully executed. Results have been saved to a new sheet.">>,
                          "OK")
  /\ UNCHANGED <<entry, cancelRequested, keyVars, single, libraryAvailable, storedKey, buildVars, promptChain, execVars,
                 callerResults>>

\* The executor threw: the caller's catch shows error.message; `results` of the
\* caller was never assigned and no result sheet is inserted.
ReportError ==
  /\ pc = "thrown"
  /\ pc' = "done"
  /\ lastAlert' =
       IF entry = "lib"
       THEN Alert("Error", <<"Error executing the prompt chain: ">> \o thrown.message, "OK")
       ELSE Alert("Execution Error",
                  <<"An error occurred while executing the prompt chain:\n\n">> \o thrown.message,
                  "OK")
  /\ UNCHANGED <<entry, cancelRequested, keyVars, single, libraryAvailable, storedKey, buildVars, promptChain, execVars,
                 callerResults, resultSheet>>

NextExec ==
  \/ StartExecution
  \/ IssueRequest
  \/ ReceiveResponse
  \/ FetchThrows
  \/ ReturnResults
  \/ WriteResults
  \/ ReportError

----------------------------------------------------------------------------
(* Executor runs: a chain of up to MaxChainLen steps of the shape the        *)
(* builders produce is handed to the executor, in every mode.                *)

TableA == << <<Str(<<"x">>), Num(<<"1">>)>>, <<Str(<<"y">>), Num(<<"2">>)>> >>

\* The locals of the building loop before any row is read.
NoRow == [read |-> FALSE, cells |-> <<>>, outcome |-> "", rangeReference |-> <<>>,
          lookups |-> <<>>, failure |-> NoError, step |-> <<>>]

ChainSteps(k) ==
  { [prompt |-> Str(<<PromptWord(k)>>), data |-> d, includeLastResult |-> b,
     options |-> NoOptions] : d \in {<<>>, TableA}, b \in BOOLEAN }

RECURSIVE ChainsOfLen(_)
ChainsOfLen(n) ==
  IF n = 0 THEN { <<>> }
  ELSE { Append(c, st) : c \in ChainsOfLen(n - 1), st \in ChainSteps(n) }

Chains == UNION { ChainsOfLen(n) : n \in 0..MaxChainLen }

InitExec ==
  /\ entry \in {"client", "lib"}
  /\ single = NoSingle
  /\ cancelRequested = FALSE
  /\ libraryAvailable \in BOOLEAN
  /\ (entry = "lib" => libraryAvailable)
  /\ storedKey \in {Null, ApiKey}
  /\ apiKey = Null /\ lastSaved = storedKey
  /\ headers = <<>>
  /\ nRows = 0
  /\ promptCol = -1 /\ rangeCol = -1 /\ includeCol = -1
  /\ pc = "execute"
  /\ rowIdx = 0
  /\ row = NoRow
  /\ promptCells = <<>>
  /\ promptChain \in Chains
  /\ hasValidPrompts = (promptChain # <<>>)
  /\ lastAlert = NoAlert
  /\ stepIdx = 0
  /\ previousResult = Null
  /\ results = <<>>
  /\ requests = <<>>
  /\ inFlight = 0
  /\ responses = <<>>
  /\ thrown = NoError
  /\ callerResults = NotAssigned
  /\ resultSheet = NoSheet

SpecExec == InitExec /\ [][NextExec]_vars

----------------------------------------------------------------------------
(* Executor runs during which the user asks to stop the run. Neither          *)
(* executeChainDirectly nor CellMindAI.executePromptChain reads any such      *)
(* request: their loops are the actions above, unchanged.                     *)

\* The user asks to stop a run that was started and has not ended.
RequestCancellation ==
  /\ pc \in {"execute", "loop", "awaiting"}
  /\ ~cancelRequested
  /\ cancelRequested' = TRUE
  /\ UNCHANGED <<entry, keyVars, single, libraryAvailable, storedKey, buildVars, pc,
                 promptChain, lastAlert, execVars, callerResults, resultSheet>>

NextCancel == NextExec \/ RequestCancellation

SpecCancel == InitExec /\ [][NextCancel]_vars

----------------------------------------------------------------------------
(* Sessions: the user runs the chain of the sheet again after a run has      *)
(* ended. Every run is a new call of the executor; what an earlier call left *)
(* in stepIdx, previousResult and results is still there when the new call   *)
(* begins, and so is the result sheet the earlier run inserted.              *)

\* The menu item is chosen again: a new invocation, whose caller has shown
\* nothing, caught nothing and sent nothing yet.
RunAgain ==
  /\ pc = "done"
  /\ pc' = "execute"
  /\ lastAlert' = NoAlert
  /\ thrown' = NoError
  /\ callerResults' = NotAssigned
  /\ requests' = <<>>
  /\ responses' = <<>>
  /\ UNCHANGED <<entry, cancelRequested, keyVars, single, libraryAvailable, storedKey, buildVars, promptChain,
                 stepIdx, previousResult, results, inFlight, resultSheet>>

NextSession == NextExec \/ RunAgain

SessionChains == UNION { ChainsOfLen(n) : n \in 1..MaxSessionChainLen }

InitSession ==
  /\ entry \in {"client", "lib"}
  /\ single = NoSingle
  /\ cancelRequested = FALSE
  /\ libraryAvailable \in BOOLEAN
  /\ (entry = "lib" => libraryAvailable)
  /\ storedKey \in {Null, ApiKey}
  /\ apiKey = Null /\ lastSaved = storedKey
  /\ headers = <<>>
  /\ nRows = 0
  /\ promptCol = -1 /\ rangeCol = -1 /\ includeCol = -1
  /\ pc = "execute"
  /\ rowIdx = 0
  /\ row = NoRow
  /\ promptCells = <<>>
  /\ promptChain \in SessionChains
  /\ hasValidPrompts = TRUE
  /\ lastAlert = NoAlert
  /\ stepIdx = 0
  /\ previousResult = Null
  /\ results = <<>>
  /\ requests = <<>>
  /\ inFlight = 0
  /\ responses = <<>>
  /\ thrown = NoError
  /\ callerResults = NotAssigned
  /\ resultSheet = NoSheet

SpecSession == InitSession /\ [][NextSession]_vars

----------------------------------------------------------------------------
(* Executor runs on chains whose steps supply generation options, as a caller *)
(* of CellMindAI.executePromptChain or executeChainDirectly may pass them.    *)

StepOptions ==
  { [model |-> m, max_tokens |-> x, temperature |-> t] :
      m \in {Undefined, Str(<<"claude-3-opus-20240229">>)},
      x \in {Undefined, Num(<<"100">>)},
      t \in {Undefined, Num(<<"0">>), Num(<<"0.2">>)} }

OptionSteps(k) ==
  { [prompt |-> Str(<<PromptWord(k)>>), data |-> <<>>, includeLastResult |-> FALSE,
     options |-> o] : o \in StepOptions }

RECURSIVE OptionChainsOfLen(_)
OptionChainsOfLen(n) ==
  IF n = 0 THEN { <<>> }
  ELSE { Append(c, st) : c \in OptionChainsOfLen(n - 1), st \in OptionSteps(n) }

InitOptions ==
  /\ entry \in {"client", "lib"}
  /\ single = NoSingle
  /\ cancelRequested = FALSE
  /\ libraryAvailable \in BOOLEAN
  /\ (entry = "lib" => libraryAvailable)
  /\ storedKey \in {Null, ApiKey}
  /\ apiKey = Null /\ lastSaved = storedKey
  /\ headers = <<>>
  /\ nRows = 0
  /\ promptCol = -1 /\ rangeCol = -1 /\ includeCol = -1
  /\ pc = "execute"
  /\ rowIdx = 0
  /\ row = NoRow
  /\ promptCells = <<>>
  /\ promptChain \in UNION { OptionChainsOfLen(n) : n \in 1..MaxOptionSteps }
  /\ hasValidPrompts = TRUE
  /\ lastAlert = NoAlert
  /\ stepIdx = 0
  /\ previousResult = Null
  /\ results = <<>>
  /\ requests = <<>>
  /\ inFlight = 0
  /\ responses = <<>>
  /\ thrown = NoError
  /\ callerResults = NotAssigned
  /\ resultSheet = NoSheet

SpecOptions == InitOptions /\ [][NextExec]_vars

----------------------------------------------------------------------------
(* Column discovery (client). *)

promptKeywords == << <<"p", "r", "o", "m", "p", "t">>, <<"q", "u", "e", "r", "y">>,
                     <<"q", "u", "e", "s", "t", "i", "o", "n">>,
                     <<"i", "n", "s", "t", "r", "u", "c", "t", "i", "o", "n">> >>
rangeKeywords == << <<"r", "a", "n", "g", "e">>, <<"d", "a", "t", "a">>,
                    <<"a", "r", "e", "a">>,
                    <<"s", "e", "l", "e", "c", "t", "i", "o", "n">> >>
includeKeywords == << <<"p", "r", "e", "v", "i", "o", "u", "s">>,
                      <<"i", "n", "c", "l", "u", "d", "e">>,
                      <<"p", "r", "i", "o", "r">>, <<"l", "a", "s", "t">> >>

\* data[0].map(h => String(h).toLowerCase().trim())
normalizeHeaders(hs) == [c \in 1..Len(hs) |-> trim(toLowerCase(String(hs[c])))]

\* A variant of the scan that looks for the keywords in priority order first.
RECURSIVE findByKeywordFirst(_, _, _)
findByKeywordFirst(hs, keywords, j) ==
  IF j > Len(keywords) THEN -1
  ELSE IF \E c \in 1..Len(hs) : includes(hs[c], keywords[j])
  THEN (CHOOSE c \in 1..Len(hs) :
          /\ includes(hs[c], keywords[j])
          /\ \A d \in 1..(c - 1) : ~includes(hs[d], keywords[j])) - 1
  ELSE findByKeywordFirst(hs, keywords, j + 1)

findColumnIndexKeywordFirst(hs, keywords) == findByKeywordFirst(hs, keywords, 1)

\* The loops of findColumnIndex from header i (0-based) on.
RECURSIVE findColumnFrom(_, _, _)
findColumnFrom(hs, keywords, i) ==
  IF i >= Len(hs) THEN -1
  ELSE IF \E j \in 1..Len(keywords) : includes(hs[i + 1], keywords[j]) THEN i
  ELSE findColumnFrom(hs, keywords, i + 1)

findColumnIndex(hs, keywords) == findColumnFrom(hs, keywords, 0)

----------------------------------------------------------------------------
(* The spreadsheet as the program sees it through SpreadsheetApp. *)

ActiveSheet == <<"Chain">>
SheetNames == { <<"Chain">>, <<"Data">> }

TableD == << <<Str(<<"d">>), Num(<<"9">>)>> >>
TableQ == << <<Str(<<"q-cell">>)>> >>
TableN == << <<Str(<<"n">>), Num(<<"3">>)>>, <<Str(<<"m">>), Num(<<"4">>)>> >>

\* References a range cell may hold.
REF_ADDRESS == <<"A1:B2">>                 \* an address, valid on every sheet
REF_NAMED == <<"Q1">>                      \* a named range; also an address of the active sheet
REF_OTHER_SHEET == <<"Data", "!", "A1:B2">>
REF_NO_SHEET == <<"Ghost", "!", "A1:B2">>
REF_UNKNOWN == <<"nowhere">>               \* no such name, no such address
REF_BAD_NAME == <<"1bad">>                 \* getRangeByName throws on it

\* ss.getSheetByName(name): the sheet or null.
getSheetByName(name) == IF name \in SheetNames THEN Str(name) ELSE Null

\* What a lookup of the spreadsheet service gives: values, nothing, or an exception.
RangeValues(values) == [ok |-> TRUE, found |-> TRUE, value |-> values, error |-> NoError]
RangeNull == [ok |-> TRUE, found |-> FALSE, value |-> <<>>, error |-> NoError]
RangeThrows(e) == [ok |-> FALSE, found |-> FALSE, value |-> <<>>, error |-> e]

\* ss.getRangeByName(name) followed, for a range, by getValues().
getRangeByName(name) ==
  IF name = REF_NAMED THEN RangeValues(TableN)
  ELSE IF name = REF_BAD_NAME
  THEN RangeThrows(Error("Exception", <<"Invalid argument: name">>, -1))
  ELSE RangeNull

\* sheet.getRange(a1).getValues() for an address without sheet part.
getRange(sheet, a1) ==
  IF a1 = REF_ADDRESS THEN RangeValues(IF sheet = ActiveSheet THEN TableA ELSE TableD)
  ELSE IF a1 = REF_NAMED /\ sheet = ActiveSheet THEN RangeValues(TableQ)
  ELSE RangeThrows(Error("Exception", <<"Range not found">>, -1))

\* s.split('!')
RECURSIVE split(_, _)
split(s, sep) ==
  IF ~ \E p \in 1..Len(s) : s[p] = sep THEN <<s>>
  ELSE LET p == CHOOSE q \in 1..Len(s) : s[q] = sep /\ \A r \in 1..(q - 1) : s[r] # sep
       IN <<SubSeq(s, 1, p - 1)>> \o split(SubSeq(s, p + 1, Len(s)), sep)

\* sheet.getRange(a1) when a1 names a sheet itself ("S!A"): the service may
\* reject the string or read the address part on the sheet it was called on.
getRangeOutcomes(sheet, a1) ==
  IF includes(a1, <<"!">>)
  THEN { RangeThrows(Error("Exception", <<"Range not found">>, -1)),
         getRange(sheet, split(a1, "!")[2]) }
  ELSE { getRange(sheet, a1) }

Lookup(op, sheet, arg) == [op |-> op, sheet |-> sheet, arg |-> arg]

Resolved(data, lookups) == [ok |-> TRUE, data |-> data, error |-> NoError, lookups |-> lookups]
Failed(e, lookups) == [ok |-> FALSE, data |-> <<>>, error |-> e, lookups |-> lookups]

\* A variant that gives up with the named lookup's error when that lookup throws.
resolveUnqualifiedNamedError(ref) ==
  LET named == getRangeByName(ref)
      byAddress == getRange(ActiveSheet, ref)
      both == <<Lookup("getRangeByName", <<>>, ref), Lookup("getRange", ActiveSheet, ref)>>
  IN IF named.ok /\ named.found
     THEN Resolved(named.value, <<Lookup("getRangeByName", <<>>, ref)>>)
     ELSE IF ~named.ok THEN Failed(named.error, <<Lookup("getRangeByName", <<>>, ref)>>)
     ELSE IF byAddress.ok THEN Resolved(byAddress.value, both)
     ELSE Failed(byAddress.error, both)

\* A variant that reads the address in the current sheet before trying the name.
resolveUnqualifiedAddressFirst(ref) ==
  IF getRange(ActiveSheet, ref).ok
  THEN Resolved(getRange(ActiveSheet, ref).value, <<Lookup("getRange", ActiveSheet, ref)>>)
  ELSE IF getRangeByName(ref).ok /\ getRangeByName(ref).found
  THEN Resolved(getRangeByName(ref).value,
                <<Lookup("getRange", ActiveSheet, ref), Lookup("getRangeByName", <<>>, ref)>>)
  ELSE Failed(getRange(ActiveSheet, ref).error,
              <<Lookup("getRange", ActiveSheet, ref), Lookup("getRangeByName", <<>>, ref)>>)

\* Client, a reference without '!': the named range if there is one, else (also
\* when the named lookup throws) the address in the current sheet.
resolveUnqualified(ref) ==
  LET named == getRangeByName(ref)
      byAddress == getRange(ActiveSheet, ref)
      both == <<Lookup("getRangeByName", <<>>, ref), Lookup("getRange", ActiveSheet, ref)>>
  IN IF named.ok /\ named.found
     THEN Resolved(named.value, <<Lookup("getRangeByName", <<>>, ref)>>)
     ELSE IF byAddress.ok THEN Resolved(byAddress.value, both)
     ELSE Failed(byAddress.error, both)

\* Client, a reference "S!A": the sheet S must exist, then the address A in it.
resolveQualified(ref) ==
  LET sheetName == split(ref, "!")[1]
      rangeAddress == split(ref, "!")[2]
      found == <<Lookup("getSheetByName", <<>>, sheetName)>>
  IN IF getSheetByName(sheetName) = Null
     THEN Failed(Error("Error", <<"Sheet \"">> \o sheetName \o <<"\" not found">>, -1), found)
     ELSE IF getRange(sheetName, rangeAddress).ok
     THEN Resolved(getRange(sheetName, rangeAddress).value,
                   found \o <<Lookup("getRange", sheetName, rangeAddress)>>)
     ELSE Failed(getRange(sheetName, rangeAddress).error,
                 found \o <<Lookup("getRange", sheetName, rangeAddress)>>)

\* Client: the try block that resolves rangeReference.
resolveClient(ref) ==
  IF includes(ref, <<"!">>) THEN resolveQualified(ref) ELSE resolveUnqualified(ref)

\* Library: sheet.getRange(rangeStr).getValues() on the active sheet, whatever
\* the string looks like; one result per behaviour of the service.
resolveLib(rangeStr) ==
  { IF out.ok THEN Resolved(out.value, <<Lookup("getRange", ActiveSheet, rangeStr)>>)
    ELSE Failed(out.error, <<Lookup("getRange", ActiveSheet, rangeStr)>>)
    : out \in getRangeOutcomes(ActiveSheet, rangeStr) }

----------------------------------------------------------------------------
(* Chain building: executePromptChainFromCurrentSheet (client) and            *)
(* showChainDialog (library).  A row is <<prompt cell, range cell, include    *)
(* cell>> in the layout of the template; the loop reads each row once, in      *)
(* order, so the cells of row i are the input of the iteration for row i.      *)

YES_TEXT == <<"y", "e", "s">>
ONE_TEXT == <<"1">>

PromptCells(k) ==
  { Str(<<PromptWord(k)>>), Str(<<>>), Str(<<" ", " ">>), Num(<<"7">>), Num(<<"0">>) }

RangeCells ==
  { Str(<<>>), Str(REF_ADDRESS), Str(REF_NAMED), Str(REF_OTHER_SHEET),
    Str(REF_NO_SHEET), Str(REF_UNKNOWN), Str(REF_BAD_NAME) }

IncludeCells ==
  { Str(<<"Y", "E", "S">>), Str(<<"N", "O">>), Str(<<" ", "T", "r", "u", "e", " ">>),
    Str(ONE_TEXT), Bool(TRUE_TEXT), Str(<<>>) }

\* The rows a sheet may hold at data row k: every range and include cell beside
\* the row's text prompt, and the other prompt cells (for which the loop leaves
\* the row before it looks at the range) beside a reference and a YES.
RowCells(k) ==
  { <<Str(<<PromptWord(k)>>), r, c>> : r \in RangeCells, c \in IncludeCells }
    \cup { <<p, Str(REF_ADDRESS), Str(<<"Y", "E", "S">>)>> : p \in PromptCells(k) }

\* Client: the include cell, as text, lower-cased and trimmed, is yes, true or 1.
includeLastResultClient(cells) ==
  /\ includeCol # -1
  /\ trim(toLowerCase(String(cells[includeCol + 1]))) \in {YES_TEXT, TRUE_TEXT, ONE_TEXT}

\* Library: data[i][2] === true || data[i][2] === 'true'.
includeLastResultLib(cells) ==
  cells[3] = Bool(TRUE_TEXT) \/ cells[3] = Str(TRUE_TEXT)

Step(prompt, data, include) ==
  [prompt |-> prompt, data |-> data, includeLastResult |-> include, options |-> NoOptions]

RowLocals(cells, outcome, ref, lookups, failure, step) ==
  [read |-> TRUE, cells |-> cells, outcome |-> outcome, rangeReference |-> ref,
   lookups |-> lookups, failure |-> failure, step |-> step]

\* if (!promptText || promptText.trim() === '') continue;
\* "skip", "keep", or "typeerror" when the cell has no trim method.
promptCellTest(cell) ==
  IF ~Truthy(cell) THEN "skip"
  ELSE IF cell.t # "str" THEN "typeerror"
  ELSE IF trim(cell.s) = <<>> THEN "skip"
  ELSE "keep"

NotAFunction == Error("TypeError", <<"promptText.trim is not a function">>, -1)

\* The answer to the YES_NO alert about a failed reference that stops the build.
DeclinesEmptyData(answer) == answer = "NO"

\* Client: one iteration of the building loop for a row and the user's answer
\* to the alert about a failed reference (asked only if the reference fails).
clientRow(cells, answer) ==
  LET promptText == cells[promptCol + 1]
      test == promptCellTest(promptText)
      hasRef == rangeCol # -1 /\ Truthy(cells[rangeCol + 1])
      ref == IF hasRef THEN trim(String(cells[rangeCol + 1])) ELSE <<>>
      res == IF ref # <<>> THEN resolveClient(ref) ELSE Resolved(<<>>, <<>>)
      step == <<Step(promptText, res.data, includeLastResultClient(cells))>>
  IN CASE test = "skip" -> RowLocals(cells, "skipped", <<>>, <<>>, NoError, <<>>)
       [] test = "typeerror" -> RowLocals(cells, "typeerror", <<>>, <<>>, NotAFunction, <<>>)
       [] test = "keep" /\ ~res.ok /\ DeclinesEmptyData(answer) ->
            RowLocals(cells, "aborted", ref, res.lookups, res.error, <<>>)
       [] OTHER -> RowLocals(cells, "step", ref, res.lookups, res.error, step)

rangeIssueAlert(r, i, answer) ==
  Alert("Data Range Issue",
        <<"There was a problem with the data range \"">> \o r.rangeReference
          \o <<"\" in row ", ToString(i + 1), ": ">> \o r.failure.message
          \o <<"\n\nWould you like to continue with an empty data set for this step?">>,
        answer)

\* A variant that counts every row read, skipped ones too, as a valid prompt.
ApplyRowCountsSkipped(r, alert) ==
  /\ row' = r
  /\ promptCells' = Append(promptCells, r.cells[promptCol + 1])
  /\ promptChain' = promptChain \o r.step
  /\ hasValidPrompts' = TRUE
  /\ lastAlert' = IF r.failure.kind # "none" /\ r.outcome # "typeerror" THEN alert ELSE lastAlert
  /\ IF r.outcome \in {"skipped", "step"}
     THEN rowIdx' = rowIdx + 1 /\ pc' = "build"
     ELSE rowIdx' = rowIdx /\ pc' = (IF r.outcome = "typeerror" THEN "crashed" ELSE "done")
  /\ UNCHANGED <<entry, cancelRequested, keyVars, single, libraryAvailable, storedKey, headers, nRows, promptCol, rangeCol,
                 includeCol, execVars, callerResults, resultSheet>>

\* What an iteration leaves behind, the same for both builders.
ApplyRow(r, alert) ==
  /\ row' = r
  /\ promptCells' = Append(promptCells, r.cells[promptCol + 1])
  /\ promptChain' = promptChain \o r.step
  /\ hasValidPrompts' = (hasValidPrompts \/ r.outcome \in {"step", "aborted"})
  /\ lastAlert' = IF r.failure.kind # "none" /\ r.outcome # "typeerror" THEN alert ELSE lastAlert
  /\ IF r.outcome \in {"skipped", "step"}
     THEN rowIdx' = rowIdx + 1 /\ pc' = "build"
     ELSE rowIdx' = rowIdx /\ pc' = (IF r.outcome = "typeerror" THEN "crashed" ELSE "done")
  /\ UNCHANGED <<entry, cancelRequested, keyVars, single, libraryAvailable, storedKey, headers, nRows, promptCol, rangeCol,
                 includeCol, execVars, callerResults, resultSheet>>

\* The answers the YES_NO alert of a row can get (closing it included); the
\* alert is shown only when the row's reference failed to resolve.
DialogAnswers(cells) ==
  IF clientRow(cells, "YES").failure.kind # "none" /\ clientRow(cells, "YES").outcome = "step"
  THEN {"YES", "NO", "CLOSE"}
  ELSE {"NONE"}

BuildRowClient ==
  /\ pc = "build" /\ entry = "client"
  /\ rowIdx <= nRows
  /\ \E cells \in RowCells(rowIdx) : \E answer \in DialogAnswers(cells) :
       LET r == clientRow(cells, answer) IN ApplyRow(r, rangeIssueAlert(r, rowIdx, answer))

\* Library: one iteration of the building loop; res is what getRange gave.
\* A TypeError is caught by the try around the whole dialog ("caught").
libRow(cells, res) ==
  LET prompt == cells[1]
      rangeStr == cells[2]
      test == promptCellTest(prompt)
      hasRef == Truthy(rangeStr) /\ rangeStr.t = "str" /\ trim(rangeStr.s) # <<>>
      used == IF hasRef THEN res ELSE Resolved(<<>>, <<>>)
      step == <<Step(prompt, used.data, includeLastResultLib(cells))>>
  IN CASE test = "skip" -> RowLocals(cells, "skipped", <<>>, <<>>, NoError, <<>>)
       [] test = "typeerror" -> RowLocals(cells, "caught", <<>>, <<>>, NotAFunction, <<>>)
       [] test = "keep" /\ Truthy(rangeStr) /\ rangeStr.t # "str" ->
            RowLocals(cells, "caught", <<>>, <<>>, NotAFunction, <<>>)
       [] test = "keep" /\ ~used.ok ->
            RowLocals(cells, "aborted", rangeStr.s, used.lookups, used.error, <<>>)
       [] OTHER -> RowLocals(cells, "step", IF hasRef THEN rangeStr.s ELSE <<>>,
                             used.lookups, NoError, step)

libRowAlert(r, i) ==
  IF r.outcome = "caught"
  THEN Alert("Error", <<"Error executing the prompt chain: ">> \o r.failure.message, "OK")
  ELSE Alert("Error", <<"Invalid range \"">> \o r.rangeReference
                        \o <<"\" in row ", ToString(i + 1), ".">>, "OK")

BuildRowLib ==
  /\ pc = "build" /\ entry = "lib"
  /\ rowIdx <= nRows
  /\ \E cells \in RowCells(rowIdx) : \E res \in resolveLib(String(cells[2])) :
       LET r == libRow(cells, res) IN ApplyRow(r, libRowAlert(r, rowIdx))

\* A variant that leaves the building loop after the first row.
EndBuildClientAfterFirstRow ==
  /\ pc = "build" /\ entry = "client"
  /\ rowIdx > 1
  /\ IF ~hasValidPrompts
     THEN /\ pc' = "done"
          /\ lastAlert' = Alert("No Valid Prompts",
                <<"No valid prompts were found in the sheet. Please add at least one prompt.">>, "OK")
     ELSE \E answer \in {"YES", "NO", "CLOSE"} :
            IF answer # "YES"
            THEN /\ pc' = "done"
                 /\ lastAlert' = Alert("Execute Prompt Chain",
                       <<"Ready to execute ", ToString(Len(promptChain)), " prompts in sequence.">>,
                       answer)
            ELSE /\ pc' = "execute"
                 /\ lastAlert' = Alert("Execution Started",
                       <<"The prompt chain is now being executed.">>, "OK")
  /\ row' = NoRow /\ promptCells' = <<>>
  /\ UNCHANGED <<entry, cancelRequested, keyVars, single, libraryAvailable, storedKey, headers, nRows, promptCol, rangeCol,
                 includeCol, rowIdx, promptChain, hasValidPrompts, execVars,
                 callerResults, resultSheet>>

\* Client, after the loop: no valid prompt ends the invocation; otherwise the
\* user confirms the execution (YES) or not.
EndBuildClient ==
  /\ pc = "build" /\ entry = "client"
  /\ rowIdx > nRows
  /\ IF ~hasValidPrompts
     THEN /\ pc' = "done"
          /\ lastAlert' = Alert("No Valid Prompts",
                <<"No valid prompts were found in the sheet. Please add at least one prompt.">>, "OK")
     ELSE \E answer \in {"YES", "NO", "CLOSE"} :
            IF answer # "YES"
            THEN /\ pc' = "done"
                 /\ lastAlert' = Alert("Execute Prompt Chain",
                       <<"Ready to execute ", ToString(Len(promptChain)), " prompts in sequence.">>,
                       answer)
            ELSE /\ pc' = "execute"
                 /\ lastAlert' = Alert("Execution Started",
                       <<"The prompt chain is now being executed.">>, "OK")
  /\ row' = NoRow /\ promptCells' = <<>>
  /\ UNCHANGED <<entry, cancelRequested, keyVars, single, libraryAvailable, storedKey, headers, nRows, promptCol, rangeCol,
                 includeCol, rowIdx, promptChain, hasValidPrompts, execVars,
                 callerResults, resultSheet>>

\* Library, after the loop: an empty chain ends the invocation; otherwise the
\* chain is executed at once.
EndBuildLib ==
  /\ pc = "build" /\ entry = "lib"
  /\ rowIdx > nRows
  /\ IF promptChain = <<>>
     THEN /\ pc' = "done"
          /\ lastAlert' = Alert("Error", <<"No valid prompts found in the sheet.">>, "OK")
     ELSE /\ pc' = "execute"
          /\ UNCHANGED lastAlert
  /\ row' = NoRow /\ promptCells' = <<>>
  /\ UNCHANGED <<entry, cancelRequested, keyVars, single, libraryAvailable, storedKey, headers, nRows, promptCol, rangeCol,
                 includeCol, rowIdx, promptChain, hasValidPrompts, execVars,
                 callerResults, resultSheet>>

\* Client menu item "Execute Prompt Chain": the key check and the first dialog.
MenuExecutePromptChain ==
  /\ pc = "idle" /\ entry = "client"
  /\ IF ~Truthy(getApiKey)
     THEN /\ pc' = "done"
          /\ lastAlert' = Alert("API Key Missing", <<"Please configure your API key first">>, "OK")
     ELSE \E button \in {"YES", "NO", "CANCEL", "CLOSE"} :
            /\ pc' = (IF button = "NO" THEN "start" ELSE "done")
            /\ lastAlert' = IF button = "YES"
                            THEN Alert("Template Created", <<"createPromptChainTemplate">>, "OK")
                            ELSE Alert("Execute Prompt Chain", <<"What would you like to do?">>, button)
  /\ UNCHANGED <<entry, cancelRequested, keyVars, single, libraryAvailable, storedKey, buildVars, promptChain, execVars,
                 callerResults, resultSheet>>

\* A variant that takes the first column as the prompt column when no header matches.
StartFromSheetFirstColumn ==
  /\ pc = "start" /\ entry = "client"
  /\ LET hs == normalizeHeaders(headers)
         found == findColumnIndex(hs, promptKeywords)
     IN IF nRows + 1 < 2
        THEN /\ pc' = "done"
             /\ lastAlert' = Alert("Insufficient Data",
                   <<"The sheet must contain at least a header row and one data row.">>, "OK")
             /\ UNCHANGED <<promptCol, rangeCol, includeCol, rowIdx>>
        ELSE IF found = -1
        THEN /\ pc' = "build"
             /\ promptCol' = 0
             /\ lastAlert' = Alert("Prompt Column Missing",
                   <<"Could not find a column with \"Prompt\" (or similar term).">>, "OK")
             /\ rowIdx' = 1
             /\ UNCHANGED <<rangeCol, includeCol>>
        ELSE /\ pc' = "build"
             /\ promptCol' = found
             /\ rangeCol' = findColumnIndex(hs, rangeKeywords)
             /\ includeCol' = findColumnIndex(hs, includeKeywords)
             /\ rowIdx' = 1
             /\ UNCHANGED lastAlert
  /\ promptChain' = <<>>
  /\ hasValidPrompts' = FALSE
  /\ UNCHANGED <<entry, cancelRequested, keyVars, single, libraryAvailable, storedKey, headers, nRows, row, promptCells,
                 execVars, callerResults, resultSheet>>

\* Client: the head of executePromptChainFromCurrentSheet, up to the loop.
StartFromSheet ==
  /\ pc = "start" /\ entry = "client"
  /\ LET hs == normalizeHeaders(headers)
         found == findColumnIndex(hs, promptKeywords)
     IN IF nRows + 1 < 2
        THEN /\ pc' = "done"
             /\ lastAlert' = Alert("Insufficient Data",
                   <<"The sheet must contain at least a header row and one data row.">>, "OK")
             /\ UNCHANGED <<promptCol, rangeCol, includeCol, rowIdx>>
        ELSE IF found = -1
        THEN /\ pc' = "done"
             /\ promptCol' = found
             /\ lastAlert' = Alert("Prompt Column Missing",
                   <<"Could not find a column with \"Prompt\" (or similar term).">>, "OK")
             /\ UNCHANGED <<rangeCol, includeCol, rowIdx>>
        ELSE /\ pc' = "build"
             /\ promptCol' = found
             /\ rangeCol' = findColumnIndex(hs, rangeKeywords)
             /\ includeCol' = findColumnIndex(hs, includeKeywords)
             /\ rowIdx' = 1
             /\ UNCHANGED lastAlert
  /\ promptChain' = <<>>
  /\ hasValidPrompts' = FALSE
  /\ UNCHANGED <<entry, cancelRequested, keyVars, single, libraryAvailable, storedKey, headers, nRows, row, promptCells,
                 execVars, callerResults, resultSheet>>

\* Library menu item "Execute Prompt Chain": showChainDialog up to the loop.
\* The answer to the instructions alert is not looked at.
ShowChainDialog ==
  /\ pc = "idle" /\ entry = "lib"
  /\ IF ~hasApiKey
     THEN /\ pc' = "done"
          /\ lastAlert' = Alert("Error",
                <<"No API key configured. Please configure an API key first.">>, "OK")
          /\ UNCHANGED <<promptCol, rangeCol, includeCol, rowIdx>>
     ELSE \E button \in {"OK", "CANCEL", "CLOSE"} :
            IF nRows + 1 < 2
            THEN /\ pc' = "done"
                 /\ lastAlert' = Alert("Error",
                       <<"The sheet must contain at least a header row and one data row.">>, "OK")
                 /\ UNCHANGED <<promptCol, rangeCol, includeCol, rowIdx>>
            ELSE /\ pc' = "build"
                 /\ lastAlert' = Alert("Prompt Chain Instructions",
                       <<"Click OK to process the prompt chain from the current sheet.">>, button)
                 /\ promptCol' = 0 /\ rangeCol' = 1 /\ includeCol' = 2
                 /\ rowIdx' = 1
  /\ apiKey' = libGetApiKey
  /\ promptChain' = <<>>
  /\ hasValidPrompts' = FALSE
  /\ UNCHANGED <<entry, cancelRequested, lastSaved, single, libraryAvailable, storedKey, headers, nRows, row, promptCells,
                 execVars, callerResults, resultSheet>>

NextBuild ==
  \/ MenuExecutePromptChain
  \/ StartFromSheet
  \/ BuildRowClient
  \/ EndBuildClient
  \/ ShowChainDialog
  \/ BuildRowLib
  \/ EndBuildLib

Next == NextBuild \/ NextExec

----------------------------------------------------------------------------
(* Invocations from the menu on a sheet of up to MaxRows data rows. *)

TemplateHeaders ==
  << Str(<<"P", "r", "o", "m", "p", "t">>),
     Str(<<"D", "a", "t", "a", " ", "R", "a", "n", "g", "e">>),
     Str(<<"I", "n", "c", "l", "u", "d", "e", " ", "P", "r", "e", "v", "i", "o", "u", "s",
           " ", "R", "e", "s", "u", "l", "t">>) >>
NoIncludeHeaders ==
  << Str(<<"Q", "u", "e", "s", "t", "i", "o", "n", " ">>), Str(<<"A", "R", "E", "A">>),
     Str(<<"N", "o", "t", "e", "s">>) >>
NoPromptHeaders ==
  << Str(<<"T", "e", "x", "t">>), Str(<<"R", "a", "n", "g", "e">>), Str(<<"L", "a", "s", "t">>) >>

SheetHeaders == {TemplateHeaders, NoIncludeHeaders, NoPromptHeaders}

Init ==
  /\ entry \in {"client", "lib"}
  /\ single = NoSingle
  /\ cancelRequested = FALSE
  /\ libraryAvailable \in BOOLEAN
  /\ (entry = "lib" => libraryAvailable)
  /\ storedKey \in {Null, ApiKey}
  /\ apiKey = Null /\ lastSaved = storedKey
  /\ headers \in SheetHeaders
  /\ (entry = "lib" => headers = TemplateHeaders)
  /\ nRows \in 0..MaxRows
  /\ promptCol = -1 /\ rangeCol = -1 /\ includeCol = -1
  /\ pc = "idle"
  /\ rowIdx = 0
  /\ row = NoRow
  /\ promptCells = <<>>
  /\ promptChain = <<>>
  /\ hasValidPrompts = FALSE
  /\ lastAlert = NoAlert
  /\ stepIdx = 0
  /\ previousResult = Null
  /\ results = <<>>
  /\ requests = <<>>
  /\ inFlight = 0
  /\ responses = <<>>
  /\ thrown = NoError
  /\ callerResults = NotAssigned
  /\ resultSheet = NoSheet

Spec == Init /\ [][Next]_vars

----------------------------------------------------------------------------
(* Column discovery on header rows of up to MaxCols cells: the head of         *)
(* executePromptChainFromCurrentSheet alone.                                   *)

HeaderCells ==
  { Str(<<"P", "r", "o", "m", "p", "t">>),
    Str(<<" ", "Q", "U", "E", "R", "Y", " ">>),
    Str(<<"D", "a", "t", "a", " ", "R", "a", "n", "g", "e">>),
    Str(<<"L", "a", "s", "t", " ", "P", "r", "o", "m", "p", "t">>),
    Str(<<"N", "o", "t", "e", "s">>),
    Str(<<"A", "R", "E", "A">>),
    Str(<<"I", "n", "c", "l", "u", "d", "e", " ", "P", "r", "e", "v", "i", "o", "u", "s">>),
    Str(<<"i", "n", "s", "t", "r", "u", "c", "t", "i", "o", "n">>),
    Str(<<>>), Num(<<"7">>) }

RECURSIVE HeaderRows(_)
HeaderRows(n) ==
  IF n = 0 THEN { <<>> }
  ELSE { Append(hs, h) : hs \in HeaderRows(n - 1), h \in HeaderCells }

InitColumns ==
  /\ entry = "client"
  /\ single = NoSingle
  /\ cancelRequested = FALSE
  /\ libraryAvailable = FALSE
  /\ storedKey = ApiKey
  /\ apiKey = Null /\ lastSaved = storedKey
  /\ headers \in UNION { HeaderRows(n) : n \in 1..MaxCols }
  /\ nRows \in 0..1
  /\ promptCol = -1 /\ rangeCol = -1 /\ includeCol = -1
  /\ pc = "start"
  /\ rowIdx = 0
  /\ row = NoRow
  /\ promptCells = <<>>
  /\ promptChain = <<>>
  /\ hasValidPrompts = FALSE
  /\ lastAlert = NoAlert
  /\ stepIdx = 0
  /\ previousResult = Null
  /\ results = <<>>
  /\ requests = <<>>
  /\ inFlight = 0
  /\ responses = <<>>
  /\ thrown = NoError
  /\ callerResults = NotAssigned
  /\ resultSheet = NoSheet

SpecColumns == InitColumns /\ [][StartFromSheet]_vars

----------------------------------------------------------------------------
(* The single-prompt operation: processWithCellMind (client menu item          *)
(* "Process with CellMindAI"), in library mode and in fallback mode.           *)

SinglePrompts == { <<>>, <<" ">>, <<"q">>, <<" ", "q", " ">> }
SingleRanges == { <<>>, REF_ADDRESS, REF_UNKNOWN }

\* rangeStr ? sheet.getRange(rangeStr).getValues() : sheet.getDataRange().getValues()
sheetData(rangeStr) ==
  IF rangeStr # <<>> THEN getRange(ActiveSheet, rangeStr) ELSE RangeValues(TableA)

\* includeHeaders ? data : data.slice(1)
processedData(data, includeHeaders) == IF includeHeaders \/ data = <<>> THEN data ELSE Tail(data)

\* The request of CellMindLib.processSheet: sendPrompt with the options
\* {includeHeaders, range}, which supply no generation parameter.
requestSingleLib ==
  [step |-> 0,
   content |-> single.prompt \o DATA_HEADER
                 \o formatDataAsTable(processedData(sheetData(single.rangeStr).value,
                                                    single.includeHeaders)),
   model |-> Or(Undefined, CLAUDE_MODEL), max_tokens |-> Or(Undefined, DEFAULT_MAX_TOKENS),
   temperature |-> Or(Undefined, DEFAULT_TEMPERATURE), apiKey |-> libGetApiKey]

\* The request of processDirectly: callClaudeAPI(fullPrompt).
requestSingleDirect ==
  [step |-> 0,
   content |-> single.prompt \o DATA_HEADER
                 \o dataTableDirect(processedData(sheetData(single.rangeStr).value,
                                                  single.includeHeaders)),
   model |-> CLAUDE_MODEL, max_tokens |-> DEFAULT_MAX_TOKENS,
   temperature |-> DEFAULT_TEMPERATURE, apiKey |-> storedKey]

LibraryErrorAlert(message) ==
  Alert("Library Error",
        <<"Error using library: ">> \o message \o <<"\nSwitching to fallback mode...">>, "OK")

ProcessingErrorAlert(message) ==
  Alert("Error", <<"Error processing data: ">> \o message, "OK")

SheetExists == Error("Exception", <<"A sheet with that name already exists">>, -1)

SingleResult(v) ==
  [created |-> TRUE, entries |-> <<[label |-> <<"A1">>, promptEcho |-> Unset, response |-> v]>>]

\* processWithCellMind up to the choice of the mode: key check and dialogs.
ProcessWithCellMind ==
  /\ pc = "process"
  /\ IF ~Truthy(getApiKey)
     THEN /\ pc' = "done"
          /\ lastAlert' = Alert("Error", <<"Please configure your API key first">>, "OK")
          /\ UNCHANGED single
     ELSE \E promptButton \in {"OK", "CANCEL", "CLOSE"}, text \in SinglePrompts,
             rangeButton \in {"OK", "CANCEL", "CLOSE"}, rangeText \in SingleRanges,
             headersAnswer \in {"YES", "NO", "CLOSE"} :
            IF promptButton # "OK"
            THEN /\ pc' = "done"
                 /\ lastAlert' = Alert("Process with CellMindAI", <<"Enter your prompt:">>,
                                       promptButton)
                 /\ UNCHANGED single
            ELSE IF trim(text) = <<>>
            THEN /\ pc' = "done"
                 /\ lastAlert' = Alert("Error", <<"Prompt cannot be empty">>, "OK")
                 /\ UNCHANGED single
            ELSE IF rangeButton # "OK"
            THEN /\ pc' = "done"
                 /\ lastAlert' = Alert("Data Range", <<"Enter the range to process">>,
                                       rangeButton)
                 /\ UNCHANGED single
            ELSE /\ pc' = (IF libraryAvailable THEN "processSheet" ELSE "processDirectly")
                 /\ single' = [prompt |-> trim(text), rangeStr |-> trim(rangeText),
                               includeHeaders |-> (headersAnswer = "YES")]
                 /\ lastAlert' = Alert("Include Headers",
                                       <<"Include column headers in the data?">>, headersAnswer)
  /\ UNCHANGED <<entry, cancelRequested, keyVars, libraryAvailable, storedKey, buildVars, promptChain, execVars,
                 callerResults, resultSheet>>

\* Library mode: CellMindLib.processSheet up to the call of UrlFetchApp.fetch.
ProcessSheet ==
  /\ pc = "processSheet"
  /\ IF ~sheetData(single.rangeStr).ok
     THEN /\ pc' = "processDirectly"
          /\ lastAlert' = LibraryErrorAlert(sheetData(single.rangeStr).error.message)
          /\ UNCHANGED <<apiKey, requests, inFlight>>
     ELSE IF ~hasApiKey
     THEN /\ pc' = "processDirectly"
          /\ lastAlert' = LibraryErrorAlert(
               <<"No API key found. Please set an API key first with setApiKey()">>)
          /\ apiKey' = libGetApiKey
          /\ UNCHANGED <<requests, inFlight>>
     ELSE /\ pc' = "awaitingSheet"
          /\ requests' = Append(requests, requestSingleLib)
          /\ inFlight' = inFlight + 1
          /\ apiKey' = libGetApiKey
          /\ UNCHANGED lastAlert
  /\ UNCHANGED <<entry, cancelRequested, lastSaved, single, libraryAvailable, storedKey, buildVars, promptChain, stepIdx,
                 previousResult, results, responses, thrown, callerResults, resultSheet>>

\* Library mode: fetch returned; the rest of sendPrompt, then writeResult.
\* Every error lands in the catch that switches to the fallback mode.
ReceiveSheetResponse ==
  /\ pc = "awaitingSheet"
  /\ \E resp \in HttpResponses(0), written \in BOOLEAN :
       LET out == sendPrompt(resp, 0) IN
         /\ responses' = Append(responses, resp)
         /\ IF out.ok /\ written
            THEN /\ pc' = "done"
                 /\ resultSheet' = SingleResult(out.value)
                 /\ lastAlert' = Alert("Success", <<"Processing complete (library mode)">>, "OK")
            ELSE /\ pc' = "processDirectly"
                 /\ lastAlert' = LibraryErrorAlert(IF out.ok THEN SheetExists.message
                                                   ELSE out.error.message)
                 /\ UNCHANGED resultSheet
  /\ inFlight' = inFlight - 1
  /\ UNCHANGED <<entry, cancelRequested, keyVars, single, libraryAvailable, storedKey, buildVars, promptChain, stepIdx,
                 previousResult, results, requests, thrown, callerResults>>

\* Library mode: fetch itself throws.
SheetFetchThrows ==
  /\ pc = "awaitingSheet"
  /\ pc' = "processDirectly"
  /\ lastAlert' = LibraryErrorAlert(<<"Error during API request: ", "Address unavailable">>)
  /\ inFlight' = inFlight - 1
  /\ UNCHANGED <<entry, cancelRequested, keyVars, single, libraryAvailable, storedKey, buildVars, promptChain, stepIdx,
                 previousResult, results, requests, responses, thrown, callerResults,
                 resultSheet>>

\* Fallback mode: processDirectly up to the call of UrlFetchApp.fetch.
ProcessDirectly ==
  /\ pc = "processDirectly"
  /\ IF ~sheetData(single.rangeStr).ok
     THEN /\ pc' = "done"
          /\ lastAlert' = ProcessingErrorAlert(sheetData(single.rangeStr).error.message)
          /\ UNCHANGED <<requests, inFlight>>
     ELSE IF ~Truthy(getApiKey)
     THEN /\ pc' = "done"
          /\ lastAlert' = ProcessingErrorAlert(<<"API key not configured">>)
          /\ UNCHANGED <<requests, inFlight>>
     ELSE /\ pc' = "awaitingDirect"
          /\ requests' = Append(requests, requestSingleDirect)
          /\ inFlight' = inFlight + 1
          /\ UNCHANGED lastAlert
  /\ UNCHANGED <<entry, cancelRequested, keyVars, single, libraryAvailable, storedKey, buildVars, promptChain, stepIdx,
                 previousResult, results, responses, thrown, callerResults, resultSheet>>

\* Fallback mode: fetch returned; the rest of callClaudeAPI, then the result sheet.
ReceiveDirectResponse ==
  /\ pc = "awaitingDirect"
  /\ \E resp \in HttpResponses(0), written \in BOOLEAN :
       LET out == callClaudeAPI(resp, 0) IN
         /\ responses' = Append(responses, resp)
         /\ IF out.ok /\ written
            THEN /\ resultSheet' = SingleResult(out.value)
                 /\ lastAlert' = Alert("Success", <<"Processing complete (fallback mode)">>, "OK")
            ELSE /\ lastAlert' = ProcessingErrorAlert(IF out.ok THEN SheetExists.message
                                                      ELSE out.error.message)
                 /\ UNCHANGED resultSheet
  /\ pc' = "done"
  /\ inFlight' = inFlight - 1
  /\ UNCHANGED <<entry, cancelRequested, keyVars, single, libraryAvailable, storedKey, buildVars, promptChain, stepIdx,
                 previousResult, results, requests, thrown, callerResults>>

\* Fallback mode: fetch itself throws.
DirectFetchThrows ==
  /\ pc = "awaitingDirect"
  /\ pc' = "done"
  /\ lastAlert' = ProcessingErrorAlert(<<"Address unavailable">>)
  /\ inFlight' = inFlight - 1
  /\ UNCHANGED <<entry, cancelRequested, keyVars, single, libraryAvailable, storedKey, buildVars, promptChain, stepIdx,
                 previousResult, results, requests, responses, thrown, callerResults,
                 resultSheet>>

NextSingle ==
  \/ ProcessWithCellMind
  \/ ProcessSheet
  \/ ReceiveSheetResponse
  \/ SheetFetchThrows
  \/ ProcessDirectly
  \/ ReceiveDirectResponse
  \/ DirectFetchThrows

InitSingle ==
  /\ entry = "client"
  /\ single = NoSingle
  /\ cancelRequested = FALSE
  /\ libraryAvailable \in BOOLEAN
  /\ storedKey \in {Null, ApiKey}
  /\ apiKey = Null /\ lastSaved = storedKey
  /\ headers = <<>>
  /\ nRows = 0
  /\ promptCol = -1 /\ rangeCol = -1 /\ includeCol = -1
  /\ pc = "process"
  /\ rowIdx = 0
  /\ row = NoRow
  /\ promptCells = <<>>
  /\ promptChain = <<>>
  /\ hasValidPrompts = FALSE
  /\ lastAlert = NoAlert
  /\ stepIdx = 0
  /\ previousResult = Null
  /\ results = <<>>
  /\ requests = <<>>
  /\ inFlight = 0
  /\ responses = <<>>
  /\ thrown = NoError
  /\ callerResults = NotAssigned
  /\ resultSheet = NoSheet

SpecSingle == InitSingle /\ [][NextSingle]_vars

----------------------------------------------------------------------------
(* The API key: the operations of the library's instance (setApiKey,          *)
(* getApiKey, hasApiKey, clearApiKey) and of the client (configureApiKey,      *)
(* getApiKey), called in any order on one instance and one property store.     *)

KEY_NEW == <<"sk-new">>

\* What a caller or the user may hand in as a key.
KeyTexts == { ApiKey.s, KEY_NEW, <<" ">> \o KEY_NEW \o <<" ">>, <<>>, <<" ">> }

\* CellMindAI.setApiKey(apiKey)
LibSetApiKey ==
  /\ pc = "keys"
  /\ \E text \in KeyTexts :
       IF ~Truthy(Str(text)) \/ trim(text) = <<>>
       THEN /\ thrown' = Error("Error", <<"API key cannot be empty">>, -1)
            /\ UNCHANGED <<apiKey, storedKey, lastSaved>>
       ELSE /\ apiKey' = Str(text)
            /\ storedKey' = Str(text)
            /\ lastSaved' = Str(text)
            /\ thrown' = NoError
  /\ UNCHANGED <<entry, cancelRequested, single, libraryAvailable, buildVars, pc, promptChain,
                 lastAlert, stepIdx, previousResult, results, requests, inFlight, responses,
                 callerResults, resultSheet>>

\* CellMindAI.getApiKey(), also as called by hasApiKey(): a stored key is kept
\* in the instance.
LibGetApiKey ==
  /\ pc = "keys"
  /\ apiKey' = libGetApiKey
  /\ thrown' = NoError
  /\ UNCHANGED <<entry, cancelRequested, lastSaved, single, libraryAvailable, storedKey,
                 buildVars, pc, promptChain, lastAlert, stepIdx, previousResult, results,
                 requests, inFlight, responses, callerResults, resultSheet>>

\* CellMindAI.clearApiKey()
LibClearApiKey ==
  /\ pc = "keys"
  /\ apiKey' = Null
  /\ storedKey' = Null
  /\ lastSaved' = Null
  /\ thrown' = NoError
  /\ UNCHANGED <<entry, cancelRequested, single, libraryAvailable, buildVars, pc, promptChain,
                 lastAlert, stepIdx, previousResult, results, requests, inFlight, responses,
                 callerResults, resultSheet>>

\* The client's configureApiKey(): the prompt, then the library's setApiKey in
\* library mode and the property store itself in fallback mode.
ConfigureApiKey ==
  /\ pc = "keys"
  /\ \E button \in {"OK", "CANCEL", "CLOSE"}, text \in KeyTexts :
       IF button # "OK"
       THEN /\ lastAlert' = Alert("Configure CellMindAI API Key",
                                  <<"Enter your Anthropic API key:">>, button)
            /\ UNCHANGED <<apiKey, storedKey, lastSaved>>
       ELSE IF ~Truthy(Str(trim(text)))
       THEN /\ lastAlert' = Alert("Error", <<"API key cannot be empty">>, "OK")
            /\ UNCHANGED <<apiKey, storedKey, lastSaved>>
       ELSE /\ lastAlert' = Alert("Success", <<"API key saved successfully">>, "OK")
            /\ storedKey' = Str(trim(text))
            /\ lastSaved' = Str(trim(text))
            /\ apiKey' = IF libraryAvailable THEN Str(trim(text)) ELSE apiKey
  /\ thrown' = NoError
  /\ UNCHANGED <<entry, cancelRequested, single, libraryAvailable, buildVars, pc, promptChain,
                 stepIdx, previousResult, results, requests, inFlight, responses,
                 callerResults, resultSheet>>

NextKeys ==
  \/ LibSetApiKey
  \/ LibGetApiKey
  \/ LibClearApiKey
  \/ ConfigureApiKey

InitKeys ==
  /\ entry = "client"
  /\ single = NoSingle
  /\ cancelRequested = FALSE
  /\ libraryAvailable \in BOOLEAN
  /\ storedKey \in {Null, ApiKey}
  /\ apiKey = Null /\ lastSaved = storedKey
  /\ headers = <<>>
  /\ nRows = 0
  /\ promptCol = -1 /\ rangeCol = -1 /\ includeCol = -1
  /\ pc = "keys"
  /\ rowIdx = 0
  /\ row = NoRow
  /\ promptCells = <<>>
  /\ promptChain = <<>>
  /\ hasValidPrompts = FALSE
  /\ lastAlert = NoAlert
  /\ stepIdx = 0
  /\ previousResult = Null
  /\ results = <<>>
  /\ requests = <<>>
  /\ inFlight = 0
  /\ responses = <<>>
  /\ thrown = NoError
  /\ callerResults = NotAssigned
  /\ resultSheet = NoSheet

SpecKeys == InitKeys /\ [][NextKeys]_vars

----------------------------------------------------------------------------
(* Every operation that can send a request: the executors called with a chain, *)
(* the chain menu items of both scripts and the single-prompt menu item.       *)

InitOperations == InitExec \/ Init \/ InitSingle

NextOperations == Next \/ NextSingle

SpecOperations == InitOperations /\ [][NextOperations]_vars

----------------------------------------------------------------------------
(* Properties of the executors (checked under SpecExec). *)

\* The text `content` holds a previous-step-result section whose body is exactly
\* `text`: the section header, then text, then the end or the data section.
HasPreviousSection(content, text) ==
  \E p \in 1..Len(content) :
    /\ <<content[p]>> \in {PREVIOUS_HEADER_DIRECT, PREVIOUS_HEADER_LIB}
    /\ p + Len(text) <= Len(content)
    /\ SubSeq(content, p + 1, p + Len(text)) = text
    /\ (p + Len(text) = Len(content) \/ <<content[p + Len(text) + 1]>> = DATA_HEADER)

\* C1: for every step i >= 1 with includeLastResult = true, the prompt sent for
\* step i holds a previous-step-result section with exactly the response text
\* returned for step i-1, for every response text, the empty one included.
C1_PreviousResultIncluded ==
  \A k \in 2..Len(requests) :
    (promptChain[k].includeLastResult /\ results[k - 1].response.t = "str")
      => HasPreviousSection(requests[k].content, results[k - 1].response.s)

\* C2: once the completion call of step i has failed, no request of a later
\* step is ever issued.
C2_StopsAtFailure ==
  thrown.kind # "none" =>
    \A k \in 1..Len(requests) : requests[k].step <= thrown.atStep

\* C2 witness: a completion call failed after its request was sent, steps remain,
\* and the invocation is over.
C2_Witness ==
  /\ pc = "done"
  /\ thrown.kind # "none"
  /\ Len(requests) = thrown.atStep + 1
  /\ thrown.atStep + 1 < Len(promptChain)

\* C3: when a run fails at step i, the caller holds the i results of the
\* completed steps together with the failure (stated for i >= 1, where there
\* is something to hand back).
C3_PartialResultsReturned ==
  (pc = "done" /\ thrown.kind # "none" /\ Len(results) >= 1) =>
    (callerResults.assigned /\ callerResults.items = results)

\* C4: requests are issued for steps 0, 1, 2, ... in this order, each with the
\* prompt of its own step, the request of step i+1 only after the result of
\* step i is recorded, and never two requests in flight.
C4_Sequential ==
  /\ inFlight \in {0, 1}
  /\ (inFlight = 1 <=> pc = "awaiting")
  /\ Len(requests) <= Len(results) + 1
  /\ (pc = "awaiting" => Len(results) = Len(requests) - 1)
  /\ \A k \in 1..Len(requests) :
       /\ requests[k].step = k - 1
       /\ k <= Len(promptChain)
       /\ SubSeq(requests[k].content, 1, Len(String(promptChain[k].prompt)))
            = String(promptChain[k].prompt)

\* C4 witness: the third request is in flight after two results were recorded.
C4_Witness == pc = "awaiting" /\ Len(requests) = 3 /\ Len(results) = 2

----------------------------------------------------------------------------
(* Properties of chain building. *)

\* A prompt cell that is non-empty and not whitespace-only, as text.
ValidPrompt(cell) == trim(String(cell)) # <<>>

\* C5: while the chain is built, after each row, its prompts are exactly the
\* prompt cells of the rows read so far that are non-empty and not
\* whitespace-only, in the order of the rows.
C5_OneStepPerValidRow ==
  (pc = "build" /\ rowIdx >= 1) =>
    [k \in 1..Len(promptChain) |-> promptChain[k].prompt] = SelectSeq(promptCells, ValidPrompt)

\* The include cell of a row as the rule reads it: text, lower-cased, trimmed.
NormalizedInclude(cells) == trim(toLowerCase(String(cells[includeCol + 1])))

\* C6: at both builders, a step built from a row has includeLastResult = TRUE
\* exactly when there is an include column and the row's include cell,
\* normalized, is "yes", "true" or "1".
C6_IncludeFlagRule ==
  (row.read /\ row.outcome = "step") =>
    (row.step[1].includeLastResult <=>
       (includeCol # -1 /\ NormalizedInclude(row.cells) \in {YES_TEXT, TRUE_TEXT, ONE_TEXT}))

\* C8: a step built with empty data after its reference failed to resolve was
\* built after the user answered YES to the alert that showed the failure.
C8_EmptyDataOnlyWithConsent ==
  (row.read /\ row.outcome = "step" /\ row.failure.kind # "none") =>
    (row.step[1].data = <<>> /\ lastAlert.title = "Data Range Issue" /\ lastAlert.answer = "YES")

UsesAddressLookup(lookups) == \E k \in 1..Len(lookups) : lookups[k].op = "getRange"

\* C9: in the client's builder, a row whose reference has no '!' and is the name
\* of a named range becomes a step with the named range's values, and the
\* address lookup is not called for that row.
C9_NamedRangePreferred ==
  (entry = "client" /\ row.read /\ row.rangeReference # <<>>
     /\ ~includes(row.rangeReference, <<"!">>)
     /\ getRangeByName(row.rangeReference).found) =>
    /\ row.outcome = "step"
    /\ row.step[1].data = getRangeByName(row.rangeReference).value
    /\ ~UsesAddressLookup(row.lookups)

\* C9 (witness): the client built a step from the reference "Q1", which is a
\* named range and also an address of the active sheet with other values.
C9_Witness ==
  /\ entry = "client" /\ row.read /\ row.outcome = "step"
  /\ row.rangeReference = REF_NAMED
  /\ getRange(ActiveSheet, REF_NAMED).ok
  /\ getRange(ActiveSheet, REF_NAMED).value # row.step[1].data
  /\ row.step[1].data = TableN

\* C10: at both builders, a row whose reference is "S!A" with S not a sheet
\* fails with the error 'Sheet "S" not found' and no address lookup is called.
C10_MissingSheetReported ==
  (row.read /\ includes(row.rangeReference, <<"!">>)
     /\ getSheetByName(split(row.rangeReference, "!")[1]) = Null) =>
    /\ row.failure.message
         = <<"Sheet \"">> \o split(row.rangeReference, "!")[1] \o <<"\" not found">>
    /\ ~UsesAddressLookup(row.lookups)

----------------------------------------------------------------------------
(* Properties of column discovery. *)

UpperChar(c) ==
  IF \E k \in 1..Len(LowerAlpha) : LowerAlpha[k] = c
  THEN UpperAlpha[CHOOSE k \in 1..Len(LowerAlpha) : LowerAlpha[k] = c]
  ELSE c

\* The same header cell in upper case, in lower case, and padded with spaces.
HeaderVariants(h) ==
  IF h.t # "str" THEN { h }
  ELSE { h,
         Str([k \in 1..Len(h.s) |-> UpperChar(h.s[k])]),
         Str([k \in 1..Len(h.s) |-> LowerChar(h.s[k])]),
         Str(<<" ">> \o h.s \o <<" ", " ">>) }

RECURSIVE RowVariants(_)
RowVariants(hs) ==
  IF hs = <<>> THEN { <<>> }
  ELSE { <<v>> \o rest : v \in HeaderVariants(Head(hs)), rest \in RowVariants(Tail(hs)) }

Matches(h, keywords) ==
  \E j \in 1..Len(keywords) : includes(trim(toLowerCase(String(h))), keywords[j])

\* The smallest 0-based index of a header that matches, or -1.
SmallestMatch(hs, keywords) ==
  IF \E c \in 1..Len(hs) : Matches(hs[c], keywords)
  THEN (CHOOSE c \in 1..Len(hs) :
          Matches(hs[c], keywords) /\ \A d \in 1..(c - 1) : ~Matches(hs[d], keywords)) - 1
  ELSE -1

\* C7: after discovery every role holds the smallest index whose normalized
\* header contains a keyword of the role's set, or -1; and the headers written
\* in another letter case or with surrounding spaces give the same indices.
C7_SmallestMatchingIndex ==
  (pc # "start" /\ nRows >= 1) =>
    /\ promptCol = SmallestMatch(headers, promptKeywords)
    /\ (pc = "build" =>
          /\ rangeCol = SmallestMatch(headers, rangeKeywords)
          /\ includeCol = SmallestMatch(headers, includeKeywords))
    /\ \A v \in RowVariants(headers) :
         /\ findColumnIndex(normalizeHeaders(v), promptKeywords) = promptCol
         /\ (pc = "build" =>
               /\ findColumnIndex(normalizeHeaders(v), rangeKeywords) = rangeCol
               /\ findColumnIndex(normalizeHeaders(v), includeKeywords) = includeCol)

\* C7 (witness): discovery ran on a row whose first header matches no prompt
\* keyword and whose second does, through a later keyword and only after
\* normalization; no header matches an include keyword.
C7_Witness ==
  /\ pc = "build" /\ Len(headers) = 2
  /\ headers[2] = Str(<<" ", "Q", "U", "E", "R", "Y", " ">>)
  /\ promptCol = 1 /\ rangeCol = 0 /\ includeCol = -1

----------------------------------------------------------------------------
(* Properties of the completion requests. *)

\* The rendering the data section must hold: the cells of a row joined by one
\* tab, one row per line.
TableText(data) == dataTableDirect(data)

\* C11: in every request sent, a step with empty data has neither the data
\* header nor a placeholder in its prompt, and a step with data has the header
\* followed by its rows, on the library path and on the fallback path.
C11_EmptyDataRendersNothing ==
  \A k \in 1..Len(requests) :
    IF promptChain[k].data = <<>>
    THEN /\ ~includes(requests[k].content, DATA_HEADER)
         /\ ~includes(requests[k].content, NO_DATA)
    ELSE includes(requests[k].content, DATA_HEADER \o TableText(promptChain[k].data))

\* The value a request must carry for a generation parameter: the step's own
\* value when it supplies one, else the default.
OptionOrDefault(supplied, default) == IF supplied = Undefined THEN default ELSE supplied

\* C12: every request sent carries the step's own model, max_tokens and
\* temperature where the step supplies them (temperature 0 included) and the
\* defaults where it does not.
C12_StepOptionsUsed ==
  \A k \in 1..Len(requests) :
    /\ requests[k].model = OptionOrDefault(promptChain[k].options.model, CLAUDE_MODEL)
    /\ requests[k].max_tokens
         = OptionOrDefault(promptChain[k].options.max_tokens, DEFAULT_MAX_TOKENS)
    /\ requests[k].temperature
         = OptionOrDefault(promptChain[k].options.temperature, DEFAULT_TEMPERATURE)

----------------------------------------------------------------------------
(* Properties of the completion call. *)

\* A 200 response without a first generated text block.
NoFirstText(resp) ==
  resp.code = "200" /\ resp.kind \in {"notext", "emptycontent", "nocontent"}

\* C13: a 200 response without a first text block ends its step with an
\* error: the step gets no result, and no recorded result has an undefined
\* response text.
C13_MalformedResponseFails ==
  /\ \A k \in 1..Len(responses) :
       NoFirstText(responses[k]) =>
         Len(results) < k /\ thrown.kind # "none" /\ thrown.atStep = k - 1
  /\ \A k \in 1..Len(results) : results[k].response # Undefined

\* C14: a response with a status code other than 200 ends its step with an
\* error whose message holds the status code and the raw body; the step gets
\* no result made of that body.
C14_Non200Fails ==
  \A k \in 1..Len(responses) :
    responses[k].code # "200" =>
      /\ k = Len(responses) /\ Len(results) = k - 1
      /\ thrown.kind # "none" /\ thrown.atStep = k - 1
      /\ includes(thrown.message, <<responses[k].code>>)
      /\ includes(thrown.message, responses[k].raw)
      /\ callerResults = NotAssigned /\ ~resultSheet.created

\* C14 (witness): the second step was answered with status 201 and a body that
\* holds a text block; the run ended with the error and one result.
C14_Witness ==
  /\ Len(responses) = 2 /\ responses[2].code = "201" /\ responses[2].kind = "text"
  /\ pc = "thrown" /\ Len(results) = 1

\* C15: within one invocation no two requests are sent for the same prompt: a
\* chain step has at most one request, and the single-prompt operation sends
\* at most one request, whatever fails.
C15_AtMostOneAttempt ==
  /\ \A j, k \in 1..Len(requests) : j # k => requests[j].step # requests[k].step
  /\ (single # NoSingle => Len(requests) <= 1)

----------------------------------------------------------------------------
(* Properties of the failures of chain building. *)

\* C16: in the client, on a sheet with data rows none of whose headers
\* matches a prompt keyword, the step that looks for the columns ends the
\* invocation with the alert about the missing prompt column; it reads no
\* row, resolves no reference, builds no chain and sends no request.
C16_NoPromptColumnFails ==
  [][ (entry = "client" /\ pc = "start" /\ nRows >= 1
         /\ SmallestMatch(headers, promptKeywords) = -1) =>
        /\ pc' = "done" /\ lastAlert'.title = "Prompt Column Missing"
        /\ promptCol' = -1
        /\ ~row'.read /\ promptCells' = <<>> /\ promptChain' = <<>>
        /\ requests' = <<>> /\ ~resultSheet'.created ]_vars

\* C16 (witness): the client ran on the headers "Text", "Range", "Last" above
\* two data rows and ended with that alert.
C16_Witness ==
  /\ entry = "client" /\ headers = NoPromptHeaders /\ nRows = 2
  /\ pc = "done" /\ lastAlert.title = "Prompt Column Missing"

\* The alert with which a builder reports that the sheet holds no valid prompt.
IsEmptyChainAlert(alert) ==
  IF entry = "client" THEN alert.title = "No Valid Prompts"
  ELSE alert = Alert("Error", <<"No valid prompts found in the sheet.">>, "OK")

C17_ExecutorRejectsEmptyChain ==
  (promptChain = <<>> /\ UsesLibrary /\ pc # "execute") =>
    /\ pc \in {"thrown", "done"}
    /\ thrown.message = <<"Prompt chain must be a non-empty array">>
    /\ requests = <<>> /\ ~resultSheet.created

----------------------------------------------------------------------------
(* Properties of what the user is shown. *)

\* C18: when a chain step failed, the alert shown to the user holds the
\* 1-based position of the step and the message of the error.
C18_FailureNamesStep ==
  (pc = "done" /\ thrown.kind # "none" /\ promptChain # <<>>) =>
    /\ includes(lastAlert.text, thrown.message)
    /\ includes(lastAlert.text, <<ToString(thrown.atStep + 1)>>)

\* The step entries of the result sheet whose response cell was written.
WrittenEntries ==
  { k \in 1..Len(resultSheet.entries) : resultSheet.entries[k].response # Unset }

\* C19: the result sheet of a chain run holds as many step entries as the
\* executor returned results, and writing an empty results list ends with the
\* success alert.
C19_OneEntryPerResult ==
  (resultSheet.created /\ callerResults.assigned) =>
    /\ Cardinality(WrittenEntries) = Len(callerResults.items)
    /\ (callerResults.items = <<>> => lastAlert.title \in {"Execution Complete", "Success"})

----------------------------------------------------------------------------
(* Cancellation (checked under SpecCancel). *)

\* C20: when the user has asked to stop the run and the executor is about to
\* start step i, the run ends there in a cancelled state of its own: the
\* request of step i is not sent, nothing is thrown, and the results of the
\* steps before i are handed to the caller.
C20_CancelledBeforeStep ==
  [][(cancelRequested /\ pc = "loop" /\ stepIdx < Len(promptChain)) =>
       /\ pc' = "cancelled"
       /\ requests' = requests
       /\ thrown' = thrown
       /\ callerResults' = Assigned(results)]_vars

----------------------------------------------------------------------------
(* Properties of repeated runs (checked under SpecSession). *)

\* The text holds the header of a previous-step-result section.
HasPreviousHeader(content) ==
  \E p \in 1..Len(content) :
    <<content[p]>> \in {PREVIOUS_HEADER_DIRECT, PREVIOUS_HEADER_LIB}

\* C21: the prompt sent for the first step of a run holds no previous-step-
\* result section, whatever the step's includeLastResult flag and whatever an
\* earlier run of the session returned.
C21_FirstStepHasNoPrevious ==
  \A k \in 1..Len(requests) :
    requests[k].step = 0 => ~HasPreviousHeader(requests[k].content)

\* C21 (witness): the result sheet of an earlier run is there, and the first
\* request of a new run, for a step with includeLastResult = true, is in flight.
C21_Witness ==
  /\ resultSheet.created /\ resultSheet.entries # <<>>
  /\ pc = "awaiting" /\ stepIdx = 0 /\ Len(requests) = 1
  /\ promptChain[1].includeLastResult

----------------------------------------------------------------------------
(* Properties of the results list (checked under SpecExec). *)

\* The results list and the responses received agree: as many entries as steps
\* completed, entry k being the text of the response to the request of step k.
ResultsAreResponseTexts ==
  /\ (pc \in {"loop", "returned"} => Len(results) = stepIdx)
  /\ Len(results) <= Len(responses)
  /\ \A k \in 1..Len(results) :
       /\ responses[k].kind = "text"
       /\ results[k].response = Str(responses[k].text)
  /\ ((pc \in {"returned", "done"} /\ thrown.kind = "none") =>
        Len(results) = Len(promptChain))

\* Entries already recorded stay as they are.
ResultsOnlyGrow ==
  /\ Len(results') >= Len(results)
  /\ \A k \in 1..Len(results) : results'[k] = results[k]

\* C22: at every point of a run the results list holds one entry per completed
\* step, in step order, entry i being the response text returned for step i;
\* recorded entries are never changed or removed, and a run without failure
\* ends with one entry per step of the chain.
C22_ResultsPerCompletedStep ==
  []ResultsAreResponseTexts /\ [][ResultsOnlyGrow]_vars

----------------------------------------------------------------------------
(* Properties of the result sheet (checked under SpecExec). *)

\* Every result of the list is a response text.
AllResultsAreTexts(res) == \A k \in 1..Len(res) : res[k].response.t = "str"

\* The entry written for result k: its heading, the prompt it echoes and the
\* text it shows.
EntryShowsResult(k) ==
  /\ k <= Len(resultSheet.entries)
  /\ includes(resultSheet.entries[k].label, <<"Step ", ToString(k)>>)
  /\ resultSheet.entries[k].promptEcho = promptChain[k].prompt
  /\ resultSheet.entries[k].response = callerResults.items[k].response

\* C23: for a list of results that are response texts (the empty text
\* included, plain texts of the fallback path and {response, rawResponse}
\* objects of the library path alike), the k-th entry of the result sheet is
\* headed "Step k", echoes the original prompt of step k and shows exactly the
\* response text of result k.
C23_EntriesShowResults ==
  (pc = "done" /\ resultSheet.created /\ AllResultsAreTexts(callerResults.items)) =>
    \A k \in 1..Len(callerResults.items) : EntryShowsResult(k)

----------------------------------------------------------------------------
(* Properties of reference resolution (checked under Spec). *)

\* The row just read holds a reference without '!' that is no named range
\* (the named lookup gives nothing or throws) and no address of the current
\* sheet either.
BothLookupsFail ==
  /\ entry = "client" /\ row.read /\ row.rangeReference # <<>>
  /\ ~includes(row.rangeReference, <<"!">>)
  /\ ~(getRangeByName(row.rangeReference).ok /\ getRangeByName(row.rangeReference).found)
  /\ ~getRange(ActiveSheet, row.rangeReference).ok

\* C24: when the named lookup and the address lookup of a reference without
\* '!' both fail, the row's resolution fails with the error of the address
\* lookup, that error is the one shown to the user in the alert of the row,
\* and the row ends the build or becomes a step without any data.
C24_AddressErrorSurfaced ==
  (BothLookupsFail /\ (pc = "build" \/ row.outcome = "aborted")) =>
    /\ row.failure = getRange(ActiveSheet, row.rangeReference).error
    /\ UsesAddressLookup(row.lookups)
    /\ lastAlert.title = "Data Range Issue"
    /\ includes(lastAlert.text, getRange(ActiveSheet, row.rangeReference).error.message)
    /\ row.outcome \in {"step", "aborted"}
    /\ (row.outcome = "step" => row.step[1].data = <<>>)
    /\ (row.outcome = "aborted" => (pc = "done" /\ row.step = <<>>))

\* C24 (witness): the named lookup threw on the reference, the address lookup
\* failed too, and the user went on with an empty data set.
C24_Witness ==
  /\ BothLookupsFail /\ pc = "build"
  /\ ~getRangeByName(row.rangeReference).ok
  /\ getRangeByName(row.rangeReference).error # getRange(ActiveSheet, row.rangeReference).error
  /\ row.outcome = "step" /\ lastAlert.answer = "YES"

----------------------------------------------------------------------------
(* The two executors compared (checked under SpecExec). *)

\* The previous result at the request of step k (1-based position).
PreviousAt(k) == IF k = 1 THEN Null ELSE results[k - 1].response

\* The fallback path and the library path send the same request for a step.
SameRequest(step, prev, k) ==
  /\ requestDirect(step, prev, k).content = requestLib(step, prev, k).content
  /\ requestDirect(step, prev, k).model = requestLib(step, prev, k).model
  /\ requestDirect(step, prev, k).max_tokens = requestLib(step, prev, k).max_tokens
  /\ requestDirect(step, prev, k).temperature = requestLib(step, prev, k).temperature

\* Both paths make the same of a response: both fail, or both yield the same text.
SameResponseText(resp, k) ==
  /\ callClaudeAPI(resp, k).ok = sendPrompt(resp, k).ok
  /\ callClaudeAPI(resp, k).value = sendPrompt(resp, k).value

\* C25: for every request a run has sent and every response it has received,
\* the executor of the other path would have sent the same prompt text with the
\* same parameters and would have taken the same response text from the
\* response.
C25_PathsEquivalent ==
  /\ \A k \in 1..Len(requests) : SameRequest(promptChain[k], PreviousAt(k), k - 1)
  /\ \A k \in 1..Len(responses) : SameResponseText(responses[k], k - 1)

----------------------------------------------------------------------------
(* Properties of the order of building and execution (checked under Spec). *)

\* Once a request was sent, the building loop is over: every row was read and
\* the executor or its caller is at work.
BuildIsOver ==
  /\ rowIdx = nRows + 1
  /\ pc \in {"loop", "awaiting", "returned", "thrown", "done"}
  /\ Len(requests) <= Len(promptChain)

\* A step that changes nothing of the build: no row is read, no reference
\* resolved, no answer about a failed reference asked for, the chain kept.
BuildUntouched ==
  /\ UNCHANGED <<rowIdx, row, promptCells, promptChain, hasValidPrompts>>
  /\ (lastAlert' # lastAlert => lastAlert'.title # "Data Range Issue")

\* C26: every row is read and every reference resolved, the user's answers
\* about failed references included, before the first request of the chain is
\* sent; after a request was sent nothing of the build happens any more.
C26_BuildBeforeExecution ==
  [](requests # <<>> => BuildIsOver) /\ [][requests' # <<>> => BuildUntouched]_vars

\* C26 (witness): a sheet of two rows became a chain of two steps, and the
\* request of the first step is in flight.
C26_Witness ==
  /\ nRows = 2 /\ rowIdx = 3 /\ Len(promptChain) = 2
  /\ pc = "awaiting" /\ Len(requests) = 1

----------------------------------------------------------------------------
(* Properties of the confirmation before a chain is executed (under Spec). *)

\* The alert is the dialog shown before the execution of a chain (the client's
\* 'Ready to execute n prompts' with YES and NO, the library's instructions with
\* OK and CANCEL), and its answer is not the positive one.
Declined(alert) ==
  \/ /\ alert.title = "Execute Prompt Chain"
     /\ includes(alert.text, <<"Ready to execute ">>)
     /\ alert.answer # "YES"
  \/ /\ alert.title = "Prompt Chain Instructions"
     /\ alert.answer # "OK"

\* C27: the step in which the user dismisses, cancels or answers NO to the
\* dialog shown before the execution ends the invocation with no request sent
\* and no result sheet, and the client hands the chain to an executor only in
\* the step in which the user answered YES.
C27_NoExecutionWithoutConfirmation ==
  [][/\ (lastAlert' # lastAlert /\ Declined(lastAlert')) =>
          (pc' = "done" /\ requests' = <<>> /\ ~resultSheet'.created)
     /\ (entry = "client" /\ pc # "execute" /\ pc' = "execute") =>
          lastAlert'.title = "Execution Started"]_vars

----------------------------------------------------------------------------
(* Properties of the API key (checked under SpecOperations). *)

\* C28: while no API key is configured, neither held by the library's instance
\* nor stored, no request has been sent and none is in flight; every request
\* sent carries a key.
C28_NoRequestWithoutKey ==
  /\ (~Truthy(apiKey) /\ ~Truthy(storedKey)) =>
       (requests = <<>> /\ inFlight = 0 /\ responses = <<>>)
  /\ \A k \in 1..Len(requests) : Truthy(requests[k].apiKey)

\* C28 (witness): an executor was called with a chain while no key was
\* configured and failed at its first step without sending anything.
C28_Witness ==
  /\ ~Truthy(apiKey) /\ ~Truthy(storedKey)
  /\ pc = "thrown" /\ thrown.atStep = 0 /\ promptChain # <<>>
  /\ requests = <<>>

\* C29: whatever key operations were called, the key the library's getApiKey
\* returns (and puts into the header of its next request) and the key the
\* client's getApiKey returns are the key saved most recently, or none after a
\* clear or when none was ever saved; the key the instance holds, if any, is
\* the stored one.
C29_KeyIsLastSaved ==
  /\ libGetApiKey = lastSaved
  /\ getApiKey = lastSaved
  /\ (Truthy(apiKey) => apiKey = storedKey)

----------------------------------------------------------------------------
(* Properties of the prompt cell (checked under Spec). *)

\* C30: a row whose prompt cell holds a value that is not a string (a number)
\* is skipped or becomes a step, like any other row: the building loop goes on
\* and no exception leaves it.
C30_ScalarPromptCellsAccepted ==
  (row.read /\ row.cells[promptCol + 1].t # "str") =>
    /\ row.outcome \in {"skipped", "step"}
    /\ row.failure.kind # "TypeError"
    /\ pc # "crashed"

----------------------------------------------------------------------------
(* Properties of the three roles together (checked under SpecColumns). *)

\* C31: once a prompt column is found, the prompt column, the data-reference
\* column and the include-previous column are pairwise distinct: the prompt
\* column is neither of the two optional columns, and when both optional
\* columns are found they are not the same column.
C31_RolesOnDistinctColumns ==
  (pc = "build" /\ promptCol # -1) =>
    /\ promptCol # rangeCol
    /\ promptCol # includeCol
    /\ (rangeCol # -1 /\ includeCol # -1) => rangeCol # includeCol

============================================================================
